---- MODULE Spec2Model ----
(***************************************************************************)
(* agent-js: the conversation store (state.ts) and the turn orchestrator   *)
(* (index.ts, main) as a state machine.                                    *)
(*                                                                         *)
(* The orchestrator is a single async function.  Its control positions are *)
(* the await points of main; one action is one resumption of main (or one  *)
(* run of the SIGINT handler) up to the next await.                        *)
(*                                                                         *)
(* Spec is the orchestrator, with each tool dispatch reduced to the way it *)
(* settles.  StoreSpec is the store under arbitrary dispatches,            *)
(* TruncateSpec adds truncateMessages to it.  ToolSpec is tools.ts: one    *)
(* dispatch of getToolResultBlock on one path of the disk, strings being   *)
(* sequences of characters.                                                *)
(***************************************************************************)
EXTENDS Integers, Sequences, FiniteSets, TLC

VARIABLES
    state,                        \* state.ts: the module-level `state`
    pc,                           \* await point main is suspended at
    currQuestionAbortController,  \* index.ts: TRUE iff not null
    currApiStream,                \* index.ts: "null", "streaming", "aborted", "failed"
    messageParam,                 \* callApi's argument while a call is in flight
    currentMessage,               \* the tool loop's currentMessage
    blockIdx,                     \* position of the for-loop over currentMessage.content
    toolResults,                  \* the tool loop's toolResults
    logs,                         \* lines printed by the latest step
    event,                        \* the external event that caused the latest step
    hist,                         \* history variable: bookkeeping of turns and calls
    file,                         \* the disk at the path the tools are given
    invocation,                   \* the tool_use block handed to getToolResultBlock
    toolOutcome,                  \* how that dispatch settled
    io,                           \* the disk and process operations it performed
    heap,                         \* the objects of state.ts and the binding `state`
    reader                        \* a caller of getState() and what it was given

vars == <<state, pc, currQuestionAbortController, currApiStream, messageParam,
          currentMessage, blockIdx, toolResults, logs, event, hist,
          file, invocation, toolOutcome, io, heap, reader>>

toolVars == <<file, invocation, toolOutcome, io>>

heapVars == <<heap, reader>>

orchVars == <<pc, currQuestionAbortController, currApiStream, messageParam,
              currentMessage, blockIdx, toolResults, logs>>

-----------------------------------------------------------------------------
(* Bounds *)

MaxCalls == 3       \* model calls started in one session
MaxMessages == 3    \* messages appended in the store-only specification
MaxUsages == 2      \* usage records appended in the store-only specification

-----------------------------------------------------------------------------
(* Values *)

None == [type |-> "none"]

\* Where the objects behind the store are not followed, and before any
\* caller holds a state it was given.
NoRef == 0
NotFollowed == [cells |-> <<>>, state |-> NoRef]
NoReader == [ref |-> NoRef, seen |-> None]

\* A line of terminal input is a sequence of characters.
Hello == <<"h", "i">>
InputLines == {<<>>, Hello}

Answers ==
    { <<>>, <<"y">>, <<"Y">>, <<"n">>, <<"y", "e">>, <<"y", "e", "s">>,
      <<"Y", "E", "S">>, <<"y", "E", "s">>, <<"y", "e", "s", "s">>,
      <<" ", "y">> }

\* The usage reported by the n-th model call of the session.
UsageOf(n) == [input_tokens |-> 10 * n, output_tokens |-> 5 * n]

\* cache_control of a block: "absent" (no such field), "null", or "ephemeral".
TextBlock(text, cc) == [type |-> "text", text |-> text, cache_control |-> cc]

ToolUseBlock(id, name, input) ==
    [type |-> "tool_use", id |-> id, name |-> name, input |-> input,
     cache_control |-> "absent"]

\* Blocks of a model reply.  A tool_use input is "ok" when it matches the
\* tool's schema and "bad" when it does not; "web_search" has no executor.
ReplyText == TextBlock(<<"o", "k">>, "absent")
Bash(id) == ToolUseBlock(id, "bash", "ok")
BashBadInput(id) == ToolUseBlock(id, "bash", "bad")
WebSearch(id) == ToolUseBlock(id, "web_search", "ok")

\* The contents a model reply is drawn from; tool_use ids are unique within
\* a reply.
ReplyContents ==
    { <<>>,
      <<ReplyText>>,
      <<Bash(1)>>,
      <<ReplyText, Bash(2)>>,
      <<Bash(1), ReplyText, Bash(3)>>,
      <<WebSearch(1)>>,
      <<BashBadInput(1)>>,
      <<Bash(1), WebSearch(2)>> }

HasToolUse(content) == \E i \in 1..Len(content) : content[i].type = "tool_use"

\* The final messages the n-th call's stream can resolve with: the stop reason
\* is "tool_use" exactly when the reply carries a tool_use block.
FinalMessages(n) ==
    { [role |-> "assistant", content |-> c,
       stop_reason |-> IF HasToolUse(c) THEN "tool_use" ELSE "end_turn",
       usage |-> UsageOf(n)] : c \in ReplyContents }

-----------------------------------------------------------------------------
(* state.ts *)

\* The models of the enum in ConfigSchema.
SupportedModels == {"claude-opus-4-6", "claude-sonnet-4-6", "claude-haiku-4-5"}

\* A ModelPricing record; prices are kept in hundredths (6.25 is 625).
ModelPricing(input, cacheWrite5m, cacheWrite1h, cacheRead, output) ==
    [inputPerToken |-> input, cacheWrite5mPerToken |-> cacheWrite5m,
     cacheWrite1hPerToken |-> cacheWrite1h, cacheReadPerToken |-> cacheRead,
     outputPerToken |-> output]

DEFAULT_CONFIG ==
    [model |-> "claude-opus-4-6",
     disableCostMessage |-> FALSE,
     pricingPerModel |->
        [m \in SupportedModels |->
            CASE m = "claude-opus-4-6" -> ModelPricing(500, 625, 1000, 50, 2500)
              [] m = "claude-sonnet-4-6" -> ModelPricing(300, 375, 600, 30, 1500)
              [] m = "claude-haiku-4-5" -> ModelPricing(100, 125, 200, 10, 500)]]

\* appState and configState: structuredClone(DEFAULT_CONFIG), side by side.
initialState ==
    [interrupted |-> FALSE,
     running |-> TRUE,
     messageParams |-> <<>>,
     messageUsages |-> <<>>,
     model |-> DEFAULT_CONFIG.model,
     pricingPerModel |-> DEFAULT_CONFIG.pricingPerModel,
     disableCostMessage |-> DEFAULT_CONFIG.disableCostMessage]

\* MessageParam.content is `string | Array<ContentBlockParam>`.
StringContent(text) == [kind |-> "string", text |-> text]
ArrayContent(blocks) == [kind |-> "array", blocks |-> blocks]

\* typeof message.content === "string"
IsString(content) == content.kind = "string"

\* Mutant: only the first block of an earlier message is cleared.
ClearCacheControlFirstBlock(message) ==
    IF IsString(message.content) THEN message
    ELSE [message EXCEPT !.content =
            ArrayContent([i \in 1..Len(message.content.blocks) |->
                IF i = 1
                THEN [message.content.blocks[i] EXCEPT !.cache_control = "null"]
                ELSE message.content.blocks[i]])]

\* Mutant: earlier messages keep their cache_control.
ClearCacheControlKept(message) == message

\* The map of "append-to-message-params": every block of an array-content
\* message gets cache_control: null; string-content messages pass through.
ClearCacheControl(message) ==
    IF IsString(message.content) THEN message
    ELSE [message EXCEPT !.content =
            ArrayContent([i \in 1..Len(message.content.blocks) |->
                [message.content.blocks[i] EXCEPT !.cache_control = "null"]])]

\* Mutant: the new message is put first (unshift for push).
AppendToMessageParamsCasePrepends(s, payload) ==
    [s EXCEPT !.messageParams =
        <<payload>> \o [i \in 1..Len(s.messageParams) |->
                          ClearCacheControl(s.messageParams[i])]]

\* case "append-to-message-params"
AppendToMessageParamsCase(s, payload) ==
    [s EXCEPT !.messageParams =
        Append([i \in 1..Len(s.messageParams) |-> ClearCacheControl(s.messageParams[i])],
               payload)]

\* Mutant: the usage list is replaced instead of extended.
AppendToMessageUsagesCaseReplaces(s, payload) ==
    [s EXCEPT !.messageUsages = <<payload>>]

\* Mutant: the usage record is put first (unshift for push).
AppendToMessageUsagesCasePrepends(s, payload) ==
    [s EXCEPT !.messageUsages = <<payload>> \o s.messageUsages]

\* case "append-to-message-usages"
AppendToMessageUsagesCase(s, payload) ==
    [s EXCEPT !.messageUsages = Append(s.messageUsages, payload)]

reducer(s, action) ==
    CASE action.type = "set-interrupted" ->
            [s EXCEPT !.interrupted = action.payload]
      [] action.type = "set-running" ->
            [s EXCEPT !.running = action.payload]
      [] action.type = "append-to-message-params" ->
            AppendToMessageParamsCase(s, action.payload)
      [] action.type = "append-to-message-usages" ->
            AppendToMessageUsagesCase(s, action.payload)
      [] action.type = "set-model" ->
            [s EXCEPT !.model = action.payload]
      [] action.type = "set-pricing-per-model" ->
            [s EXCEPT !.pricingPerModel = action.payload]
      [] action.type = "set-disable-cost-message" ->
            [s EXCEPT !.disableCostMessage = action.payload]

setInterrupted(b) == [type |-> "set-interrupted", payload |-> b]
setRunning(b) == [type |-> "set-running", payload |-> b]
appendToMessageParams(m) == [type |-> "append-to-message-params", payload |-> m]
appendToMessageUsages(u) == [type |-> "append-to-message-usages", payload |-> u]
setModel(m) == [type |-> "set-model", payload |-> m]
setPricingPerModel(p) == [type |-> "set-pricing-per-model", payload |-> p]
setDisableCostMessage(b) == [type |-> "set-disable-cost-message", payload |-> b]

-----------------------------------------------------------------------------
(* tools.ts *)

Registered == {"bash", "create_file", "view_file", "str_replace", "insert_lines"}

ToolResultBlock(id, isError) ==
    [type |-> "tool_result", tool_use_id |-> id, is_error |-> isError,
     cache_control |-> "absent"]

\* Mutant: a switch with a default case that answers an unknown name with an
\* error result.
getToolResultBlockDefaultCase(toolUseBlock) ==
    IF toolUseBlock.name \in Registered /\ toolUseBlock.input = "bad"
    THEN {[threw |-> TRUE, block |-> None]}
    ELSE IF toolUseBlock.name \notin Registered
    THEN {[threw |-> FALSE, block |-> ToolResultBlock(toolUseBlock.id, TRUE)]}
    ELSE {[threw |-> FALSE, block |-> ToolResultBlock(toolUseBlock.id, e)]
            : e \in BOOLEAN}

\* The ways getToolResultBlock can settle for one tool_use block: it throws
\* for a name without executor and for an input the schema rejects; otherwise
\* the executor returns a result block, is_error set when the execution failed.
getToolResultBlock(toolUseBlock) ==
    IF toolUseBlock.name \notin Registered \/ toolUseBlock.input = "bad"
    THEN {[threw |-> TRUE, block |-> None]}
    ELSE {[threw |-> FALSE, block |-> ToolResultBlock(toolUseBlock.id, e)]
            : e \in BOOLEAN}

-----------------------------------------------------------------------------
(* index.ts: main *)

Message(role, content) == [role |-> role, content |-> content]

UserMessage(line) == Message("user", ArrayContent(<<TextBlock(line, "ephemeral")>>))

\* Mutant: the results are sent as they were returned, without markers.
ToolResultsMessageUnmarked(results) ==
    Message("user", ArrayContent(results))

\* toolResults.map(r => ({...r, cache_control: {type: "ephemeral"}}))
ToolResultsMessage(results) ==
    Message("user",
            ArrayContent([i \in 1..Len(results) |->
                            [results[i] EXCEPT !.cache_control = "ephemeral"]]))

\* Canonicalisation of the i flag on the characters of the pattern.
ToLower(c) ==
    CASE c = "Y" -> "y" [] c = "E" -> "e" [] c = "S" -> "s" [] OTHER -> c

\* Mutant: the pattern without its $ anchor.
MatchesYesUnanchored(line) ==
    /\ Len(line) >= 1
    /\ ToLower(line[1]) = "y"

\* /^y(es)?$/i.exec(line) is not null
MatchesYes(line) ==
    \/ Len(line) = 1 /\ ToLower(line[1]) = "y"
    \/ Len(line) = 3 /\ ToLower(line[1]) = "y" /\ ToLower(line[2]) = "e"
                     /\ ToLower(line[3]) = "s"

\* Mutant: the reply is dispatched before the outbound message.
callApiDispatchesReplyFirst(s, mp, streamResult) ==
    reducer(reducer(reducer(s, appendToMessageParams(Message(streamResult.role,
                                                             ArrayContent(streamResult.content)))),
                    appendToMessageUsages(streamResult.usage)),
            appendToMessageParams(mp))

\* Mutant: the usage record is not dispatched.
callApiDispatchesNoUsage(s, mp, streamResult) ==
    reducer(reducer(s, appendToMessageParams(mp)),
            appendToMessageParams(Message(streamResult.role,
                                          ArrayContent(streamResult.content))))

\* Mutant: the outbound message is dispatched before and after the reply.
callApiDispatchesTwice(s, mp, streamResult) ==
    reducer(reducer(reducer(reducer(s, appendToMessageParams(mp)),
                            appendToMessageUsages(streamResult.usage)),
                    appendToMessageParams(Message(streamResult.role,
                                                  ArrayContent(streamResult.content)))),
            appendToMessageParams(mp))

\* Mutant: the reply is not dispatched.
callApiDispatchesNoReply(s, mp, streamResult) ==
    reducer(reducer(s, appendToMessageParams(mp)),
            appendToMessageUsages(streamResult.usage))

\* The three dispatches callApi makes once finalMessage has resolved.
callApiDispatches(s, mp, streamResult) ==
    reducer(reducer(reducer(s, appendToMessageParams(mp)),
                    appendToMessageUsages(streamResult.usage)),
            appendToMessageParams(Message(streamResult.role,
                                          ArrayContent(streamResult.content))))

\* if (!selectors.getDisableCostMessage()) colorLog(calculateSessionCost(..))
CostLogs(s) == IF ~s.disableCostMessage THEN <<"Session cost">> ELSE <<>>

\* Mutant: only the first tool_use block of a reply is dispatched.
NextToolUseFirstOnly(content, from) ==
    LET S == {i \in 1..Len(content) : content[i].type = "tool_use"}
    IN IF S = {} \/ from > 1 THEN 0 ELSE CHOOSE i \in S : \A j \in S : i <= j

\* First tool_use block of content at position >= from, 0 when there is none.
NextToolUse(content, from) ==
    LET S == {i \in from..Len(content) : content[i].type = "tool_use"}
    IN IF S = {} THEN 0 ELSE CHOOSE i \in S : \A j \in S : i <= j

\* The history variable at the start: nothing has happened yet.
InitHist ==
    [before |-> <<>>, k |-> 0, u |-> 0, rounds |-> 0, outcome |-> "none",
     started |-> 0, completed |-> 0, settled |-> 0, declined |-> FALSE,
     appended |-> <<>>, dirtyResets |-> 0, truncated |-> FALSE]

InModelCall == pc \in {"CallingModel", "ToolLoopCallingModel"}

TypeOK ==
    /\ state.running \in BOOLEAN /\ state.interrupted \in BOOLEAN
    /\ pc \in {"AwaitingInput", "ConfirmExit", "CallingModel", "DispatchingTools",
               "ToolLoopCallingModel", "Done", "Exited", "Fatal", "Store"}
    /\ currQuestionAbortController \in BOOLEAN
    /\ currApiStream \in {"null", "streaming", "aborted", "failed"}

Init ==
    /\ \E d \in BOOLEAN : state = reducer(initialState, setDisableCostMessage(d))
    /\ pc = "AwaitingInput"
    /\ currQuestionAbortController = TRUE
    /\ currApiStream = "null"
    /\ messageParam = None
    /\ currentMessage = None
    /\ blockIdx = 0
    /\ toolResults = <<>>
    /\ logs = <<>>
    /\ event = [type |-> "start", value |-> <<>>]
    /\ hist = InitHist
    /\ file = [kind |-> "absent"]
    /\ invocation = None
    /\ toolOutcome = None
    /\ io = <<>>
    /\ heap = NotFollowed
    /\ reader = NoReader

\* Mutant: the loop condition is not re-evaluated.
WhileRunningForever(s) ==
    pc' = "AwaitingInput" /\ currQuestionAbortController' = TRUE

\* Mutant: the loop condition is taken as false, main returns.
WhileRunningReturns(s) ==
    pc' = "Done" /\ currQuestionAbortController' = FALSE

\* while (selectors.getRunning()) { currQuestionAbortController = new ...;
\*   await rl.question("> ") ...
WhileRunning(s) ==
    IF s.running
    THEN pc' = "AwaitingInput" /\ currQuestionAbortController' = TRUE
    ELSE pc' = "Done" /\ currQuestionAbortController' = FALSE

\* Mutant: callApi is not awaited, main goes on to the next prompt.
StartCallNotAwaited(mp, at) ==
    /\ currApiStream' = "streaming"
    /\ messageParam' = mp
    /\ pc' = "AwaitingInput"

\* callApi up to its await: the stream is created and stored.
StartCall(mp, at) ==
    /\ currApiStream' = "streaming"
    /\ messageParam' = mp
    /\ pc' = at

\* Mutant: the call is started with the results that are there once the
\* first dispatch has settled; the other dispatches are not awaited.
ToolLoopFromNotAwaited(cm, idx, results, h) ==
    LET j == NextToolUse(cm.content, idx) IN
    IF j # 0 /\ results = <<>>
    THEN /\ pc' = "DispatchingTools"
         /\ blockIdx' = j
         /\ toolResults' = results
         /\ currApiStream' = "null"
         /\ messageParam' = None
         /\ hist' = h
    ELSE /\ StartCall(ToolResultsMessage(results), "ToolLoopCallingModel")
         /\ blockIdx' = 0
         /\ toolResults' = results
         /\ hist' = [h EXCEPT !.started = @ + 1]

\* The body of the tool loop from the for-loop position idx with the results
\* collected so far, up to the next await (h is the history so far).
ToolLoopFrom(cm, idx, results, h) ==
    LET j == NextToolUse(cm.content, idx) IN
    IF j # 0
    THEN /\ pc' = "DispatchingTools"
         /\ blockIdx' = j
         /\ toolResults' = results
         /\ currApiStream' = "null"
         /\ messageParam' = None
         /\ hist' = h
    ELSE /\ StartCall(ToolResultsMessage(results), "ToolLoopCallingModel")
         /\ blockIdx' = 0
         /\ toolResults' = results
         /\ hist' = [h EXCEPT !.started = @ + 1]

\* Mutant: the empty line is sent to the model like any other.
ReadLineSendsEmpty ==
    /\ UNCHANGED <<toolVars, heapVars>>
    /\ pc = "AwaitingInput"
    /\ \E line \in InputLines :
        /\ event' = [type |-> "line", value |-> line]
        /\ hist.started < MaxCalls
        /\ logs' = <<>>
        /\ currQuestionAbortController' = FALSE
        /\ StartCall(UserMessage(line), "CallingModel")
        /\ hist' = [hist EXCEPT !.before = state.messageParams,
                                !.k = Len(state.messageParams),
                                !.u = Len(state.messageUsages),
                                !.rounds = 0,
                                !.outcome = "active",
                                !.started = @ + 1]
        /\ UNCHANGED <<state, currentMessage, blockIdx, toolResults>>

\* rl.question("> ") resolves with a line.
ReadLine ==
    /\ UNCHANGED <<toolVars, heapVars>>
    /\ pc = "AwaitingInput"
    /\ \E line \in InputLines :
        /\ event' = [type |-> "line", value |-> line]
        /\ IF line = <<>>
           THEN /\ logs' = <<"Empty input, aborting">>
                /\ WhileRunning(state)
                /\ hist' = [hist EXCEPT !.outcome = "empty"]
                /\ UNCHANGED <<state, currApiStream, messageParam, currentMessage,
                               blockIdx, toolResults>>
           ELSE /\ hist.started < MaxCalls
                /\ logs' = <<>>
                /\ currQuestionAbortController' = FALSE
                /\ StartCall(UserMessage(line), "CallingModel")
                /\ hist' = [hist EXCEPT !.before = state.messageParams,
                                        !.k = Len(state.messageParams),
                                        !.u = Len(state.messageUsages),
                                        !.rounds = 0,
                                        !.outcome = "active",
                                        !.started = @ + 1]
                /\ UNCHANGED <<state, currentMessage, blockIdx, toolResults>>

\* rl.question("> ") rejects with an error that is not an AbortError.
ReadFailed ==
    /\ UNCHANGED <<toolVars, heapVars>>
    /\ pc = "AwaitingInput"
    /\ event' = [type |-> "readError", value |-> <<>>]
    /\ pc' = "Fatal"
    /\ currQuestionAbortController' = FALSE
    /\ logs' = <<"error">>
    /\ UNCHANGED <<state, currApiStream, messageParam, currentMessage, blockIdx,
                   toolResults, hist>>

\* Mutant: the handler without its "second <C-c>" branch.
SIGINTNoExit ==
    /\ UNCHANGED <<toolVars, heapVars>>
    /\ pc \in {"AwaitingInput", "ConfirmExit", "CallingModel", "DispatchingTools",
               "ToolLoopCallingModel"}
    /\ event' = [type |-> "SIGINT", value |-> <<>>]
    /\ currApiStream' = IF currApiStream = "streaming" THEN "aborted" ELSE currApiStream
    /\ logs' = <<>>
    /\ UNCHANGED <<messageParam, currentMessage, blockIdx, toolResults, hist>>
    /\ IF currQuestionAbortController
       THEN IF pc = "AwaitingInput"
            THEN /\ state' = reducer(state, setInterrupted(TRUE))
                 /\ currQuestionAbortController' = TRUE
                 /\ pc' = "ConfirmExit"
            ELSE /\ state' = reducer(state, setInterrupted(FALSE))
                 /\ WhileRunning(state')
       ELSE UNCHANGED <<state, pc, currQuestionAbortController>>

\* Mutant: the handler raises the interrupted flag also when there is no
\* question to abort.
SIGINTAlwaysFlags ==
    /\ UNCHANGED <<toolVars, heapVars>>
    /\ pc \in {"AwaitingInput", "ConfirmExit", "CallingModel", "DispatchingTools",
               "ToolLoopCallingModel"}
    /\ event' = [type |-> "SIGINT", value |-> <<>>]
    /\ currApiStream' = IF currApiStream = "streaming" THEN "aborted" ELSE currApiStream
    /\ logs' = <<>>
    /\ UNCHANGED <<messageParam, currentMessage, blockIdx, toolResults, hist>>
    /\ IF state.interrupted
       THEN /\ pc' = "Exited"
            /\ UNCHANGED <<state, currQuestionAbortController>>
       ELSE IF currQuestionAbortController
       THEN IF pc = "AwaitingInput"
            THEN /\ state' = reducer(state, setInterrupted(TRUE))
                 /\ currQuestionAbortController' = TRUE
                 /\ pc' = "ConfirmExit"
            ELSE /\ state' = reducer(state, setInterrupted(FALSE))
                 /\ WhileRunning(state')
       ELSE /\ state' = reducer(state, setInterrupted(TRUE))
            /\ UNCHANGED <<pc, currQuestionAbortController>>

\* rl.on("SIGINT", ...); when the handler aborts the pending question, main
\* resumes in the same tick, after the handler has returned.
SIGINT ==
    /\ UNCHANGED <<toolVars, heapVars>>
    /\ pc \in {"AwaitingInput", "ConfirmExit", "CallingModel", "DispatchingTools",
               "ToolLoopCallingModel"}
    /\ event' = [type |-> "SIGINT", value |-> <<>>]
    /\ currApiStream' = IF currApiStream = "streaming" THEN "aborted" ELSE currApiStream
    /\ IF state.interrupted
       THEN \* rl.close(); process.exit(0)
            /\ pc' = "Exited"
            /\ logs' = <<>>
            /\ UNCHANGED <<state, currQuestionAbortController, messageParam,
                           currentMessage, blockIdx, toolResults, hist>>
       ELSE IF currQuestionAbortController
       THEN IF pc = "AwaitingInput"
            THEN /\ state' = reducer(state, setInterrupted(TRUE))
                 /\ currQuestionAbortController' = TRUE
                 /\ pc' = "ConfirmExit"
                 /\ logs' = <<>>
                 /\ UNCHANGED <<messageParam, currentMessage, blockIdx, toolResults,
                                hist>>
            ELSE /\ state' = reducer(state, setInterrupted(FALSE))
                 /\ WhileRunning(state')
                 /\ logs' = <<>>
                 /\ UNCHANGED <<messageParam, currentMessage, blockIdx, toolResults,
                                hist>>
       ELSE /\ logs' = <<>>
            /\ UNCHANGED <<state, pc, currQuestionAbortController, messageParam,
                           currentMessage, blockIdx, toolResults, hist>>

\* rl.question("y(es) or <C-c> to exit: ") resolves with a line.
ConfirmAnswer ==
    /\ UNCHANGED <<toolVars, heapVars>>
    /\ pc = "ConfirmExit"
    /\ \E answer \in Answers :
        LET s1 == IF MatchesYes(answer) THEN reducer(state, setRunning(FALSE))
                  ELSE state
            s2 == reducer(s1, setInterrupted(FALSE))
        IN /\ event' = [type |-> "line", value |-> answer]
           /\ state' = s2
           /\ WhileRunning(s2)
           /\ hist' = [hist EXCEPT !.declined = @ \/ s2.running]
    /\ logs' = <<>>
    /\ UNCHANGED <<currApiStream, messageParam, currentMessage, blockIdx, toolResults>>

\* Mutant: interrupted is reset only when the exit question resolved.
ConfirmFailedNoReset ==
    /\ UNCHANGED <<toolVars, heapVars>>
    /\ pc = "ConfirmExit"
    /\ event' = [type |-> "readError", value |-> <<>>]
    /\ WhileRunning(state)
    /\ logs' = <<>>
    /\ UNCHANGED <<state, currApiStream, messageParam, currentMessage, blockIdx,
                   toolResults, hist>>

\* The exit question rejects without the SIGINT handler having run.
ConfirmFailed ==
    /\ UNCHANGED <<toolVars, heapVars>>
    /\ pc = "ConfirmExit"
    /\ event' = [type |-> "readError", value |-> <<>>]
    /\ state' = reducer(state, setInterrupted(FALSE))
    /\ WhileRunning(state')
    /\ logs' = <<>>
    /\ UNCHANGED <<currApiStream, messageParam, currentMessage, blockIdx, toolResults,
                   hist>>

\* currApiStream.finalMessage() resolves.  A stream that was aborted does not
\* resolve: it rejects with APIUserAbortError (ApiAborted).
ApiReply ==
    /\ UNCHANGED <<toolVars, heapVars>>
    /\ InModelCall
    /\ currApiStream = "streaming"
    /\ \E streamResult \in FinalMessages(hist.started) :
        LET s1 == callApiDispatches(state, messageParam, streamResult)
            h == [hist EXCEPT !.completed = @ + 1,
                              !.settled = @ + 1,
                              !.rounds = IF pc = "ToolLoopCallingModel" THEN @ + 1 ELSE @]
        IN /\ streamResult.stop_reason = "tool_use" => hist.started < MaxCalls
           /\ event' = [type |-> "finalMessage", value |-> <<>>]
           /\ state' = s1
           /\ currentMessage' = streamResult
           /\ IF streamResult.stop_reason = "tool_use"
              THEN /\ ToolLoopFrom(streamResult, 1, <<>>, h)
                   /\ logs' = <<>>
                   /\ UNCHANGED currQuestionAbortController
              ELSE /\ logs' = CostLogs(s1)
                   /\ WhileRunning(s1)
                   /\ currApiStream' = "null"
                   /\ messageParam' = None
                   /\ hist' = [h EXCEPT !.outcome = "completed"]
                   /\ UNCHANGED <<blockIdx, toolResults>>

\* Mutant: the abort error is rethrown like any other error.
ApiAbortedRethrown ==
    /\ UNCHANGED <<toolVars, heapVars>>
    /\ InModelCall
    /\ currApiStream = "aborted"
    /\ event' = [type |-> "APIUserAbortError", value |-> <<>>]
    /\ logs' = <<"error">>
    /\ pc' = "Fatal"
    /\ messageParam' = None
    /\ hist' = [hist EXCEPT !.outcome = "fatal", !.settled = @ + 1]
    /\ UNCHANGED <<state, currQuestionAbortController, currApiStream, currentMessage,
                   blockIdx, toolResults>>

\* Mutant: the outbound message was dispatched before the stream started and
\* is not taken back.
ApiAbortedKeepsOutbound ==
    /\ UNCHANGED <<toolVars, heapVars>>
    /\ InModelCall
    /\ currApiStream = "aborted"
    /\ event' = [type |-> "APIUserAbortError", value |-> <<>>]
    /\ logs' = IF pc = "CallingModel" THEN <<"Aborted">>
               ELSE <<"Aborted">> \o CostLogs(state)
    /\ state' = reducer(state, appendToMessageParams(messageParam))
    /\ WhileRunning(state)
    /\ messageParam' = None
    /\ hist' = [hist EXCEPT !.outcome = "aborted", !.settled = @ + 1]
    /\ UNCHANGED <<currApiStream, currentMessage, blockIdx, toolResults>>

\* finalMessage() rejects with APIUserAbortError after abort().  The
\* assignment currApiStream = null is skipped by the rejection.
ApiAborted ==
    /\ UNCHANGED <<toolVars, heapVars>>
    /\ InModelCall
    /\ currApiStream = "aborted"
    /\ event' = [type |-> "APIUserAbortError", value |-> <<>>]
    /\ logs' = IF pc = "CallingModel" THEN <<"Aborted">>
               ELSE <<"Aborted">> \o CostLogs(state)
    /\ WhileRunning(state)
    /\ messageParam' = None
    /\ hist' = [hist EXCEPT !.outcome = "aborted", !.settled = @ + 1]
    /\ UNCHANGED <<state, currApiStream, currentMessage, blockIdx, toolResults>>

\* Mutant: the failed call is issued again with the same outbound message.
ApiFailedRetries ==
    /\ UNCHANGED <<toolVars, heapVars>>
    /\ InModelCall
    /\ hist.started < MaxCalls
    /\ event' = [type |-> "apiError", value |-> <<>>]
    /\ logs' = <<"error">>
    /\ currApiStream' = "streaming"
    /\ hist' = [hist EXCEPT !.started = @ + 1, !.settled = @ + 1]
    /\ UNCHANGED <<state, pc, currQuestionAbortController, messageParam,
                   currentMessage, blockIdx, toolResults>>

\* finalMessage() rejects with any other error: main throws, the variable
\* keeps the stream that failed.
ApiFailed ==
    /\ UNCHANGED <<toolVars, heapVars>>
    /\ InModelCall
    /\ event' = [type |-> "apiError", value |-> <<>>]
    /\ pc' = "Fatal"
    /\ logs' = <<"error">>
    /\ messageParam' = None
    /\ hist' = [hist EXCEPT !.outcome = "fatal", !.settled = @ + 1]
    /\ currApiStream' = "failed"
    /\ UNCHANGED <<state, currQuestionAbortController, currentMessage,
                   blockIdx, toolResults>>

\* await getToolResultBlock(contentBlock) resolves with a result block.
ToolSettled ==
    /\ UNCHANGED <<toolVars, heapVars>>
    /\ pc = "DispatchingTools"
    /\ \E o \in getToolResultBlock(currentMessage.content[blockIdx]) :
        /\ ~o.threw
        /\ ToolLoopFrom(currentMessage, blockIdx + 1, Append(toolResults, o.block), hist)
    /\ event' = [type |-> "toolResult", value |-> <<>>]
    /\ logs' = <<>>
    /\ UNCHANGED <<state, currQuestionAbortController, currentMessage>>

\* await getToolResultBlock(contentBlock) rejects: main throws.
ToolThrew ==
    /\ UNCHANGED <<toolVars, heapVars>>
    /\ pc = "DispatchingTools"
    /\ \E o \in getToolResultBlock(currentMessage.content[blockIdx]) : o.threw
    /\ event' = [type |-> "toolError", value |-> <<>>]
    /\ pc' = "Fatal"
    /\ logs' = <<"error">>
    /\ hist' = [hist EXCEPT !.outcome = "fatal"]
    /\ UNCHANGED <<state, currQuestionAbortController, currApiStream, messageParam,
                   currentMessage, blockIdx, toolResults>>

Next ==
    \/ ReadLine
    \/ ReadFailed
    \/ SIGINT
    \/ ConfirmAnswer
    \/ ConfirmFailed
    \/ ApiReply
    \/ ApiAborted
    \/ ApiFailed
    \/ ToolSettled
    \/ ToolThrew

Spec == Init /\ [][Next]_vars

\* The state after construction, cost reporting left enabled.
LiveInit == Init /\ ~state.disableCostMessage

\* The orchestrator when every model call and every tool dispatch settles:
\* a pending finalMessage() resolves or rejects, a pending getToolResultBlock
\* resolves or rejects.  The number of calls of a session is bounded, so the
\* model does return a stop reason other than tool_use.  Cost reporting is
\* left enabled: it does not bear on where control goes.
LiveSpec ==
    /\ LiveInit
    /\ [][Next]_vars
    /\ WF_vars(ApiReply \/ ApiAborted \/ ApiFailed)
    /\ WF_vars(ToolSettled \/ ToolThrew)

-----------------------------------------------------------------------------
(* The store on its own: dispatch and resetState with arbitrary payloads *)

PayloadBlockSeqs ==
    { <<TextBlock(Hello, "absent")>>,
      <<TextBlock(Hello, "absent"), TextBlock(Hello, "ephemeral")>>,
      <<[ToolResultBlock(1, FALSE) EXCEPT !.cache_control = "ephemeral"]>> }

Payloads ==
    {Message("user", ArrayContent(b)) : b \in PayloadBlockSeqs}
      \cup {Message("assistant", ArrayContent(<<ToolUseBlock(1, "bash", "ok")>>)),
            Message("assistant", ArrayContent(<<TextBlock(Hello, "ephemeral")>>)),
            Message("user", StringContent("hi"))}

InitStore ==
    /\ state = initialState
    /\ pc = "Store"
    /\ currQuestionAbortController = FALSE
    /\ currApiStream = "null"
    /\ messageParam = None
    /\ currentMessage = None
    /\ blockIdx = 0
    /\ toolResults = <<>>
    /\ logs = <<>>
    /\ event = [type |-> "start", value |-> <<>>]
    /\ hist = InitHist
    /\ file = [kind |-> "absent"]
    /\ invocation = None
    /\ toolOutcome = None
    /\ io = <<>>
    /\ heap = NotFollowed
    /\ reader = NoReader

\* dispatch: state = reducer(getState(), action)
dispatch(action) ==
    /\ state' = reducer(state, action)
    /\ event' = [type |-> action.type, value |-> <<>>]
    /\ hist' = [hist EXCEPT !.appended =
                    IF action.type = "append-to-message-params"
                    THEN Append(@, action.payload) ELSE @]
    /\ UNCHANGED <<orchVars, toolVars, heapVars>>

DispatchAppendToMessageParams ==
    /\ Len(state.messageParams) < MaxMessages
    /\ \E m \in Payloads : dispatch(appendToMessageParams(m))

DispatchAppendToMessageUsages ==
    /\ Len(state.messageUsages) < MaxUsages
    /\ dispatch(appendToMessageUsages(UsageOf(Len(state.messageUsages) + 1)))

DispatchSetRunning == \E b \in BOOLEAN : dispatch(setRunning(b))

DispatchSetInterrupted == \E b \in BOOLEAN : dispatch(setInterrupted(b))

DispatchSetDisableCostMessage == \E b \in BOOLEAN : dispatch(setDisableCostMessage(b))

\* A reset that restores the application state only and keeps the
\* configuration that was set.
resetStateKeepsConfig ==
    /\ state' = [initialState EXCEPT
                    !.disableCostMessage = state.disableCostMessage]
    /\ event' = [type |-> "reset", value |-> <<>>]
    /\ hist' = [hist EXCEPT !.appended = <<>>,
                            !.truncated = FALSE,
                            !.dirtyResets = IF state # initialState /\ @ < 2
                                            THEN @ + 1 ELSE @]
    /\ UNCHANGED <<orchVars, toolVars, heapVars>>

\* resetState: state = structuredClone(initialState).  The history counts
\* (up to two) the resets that found the store changed.
resetState ==
    /\ state' = initialState
    /\ event' = [type |-> "reset", value |-> <<>>]
    /\ hist' = [hist EXCEPT !.appended = <<>>,
                            !.truncated = FALSE,
                            !.dirtyResets = IF state # initialState /\ @ < 2
                                            THEN @ + 1 ELSE @]
    /\ UNCHANGED <<orchVars, toolVars, heapVars>>

NextStore ==
    \/ DispatchAppendToMessageParams
    \/ DispatchAppendToMessageUsages
    \/ DispatchSetRunning
    \/ DispatchSetInterrupted
    \/ DispatchSetDisableCostMessage
    \/ resetState

StoreSpec == InitStore /\ [][NextStore]_vars

\* Mutant: the message at position count + 1 is kept as well.
TruncateMessagesCaseKeepsOneMore(s, count) ==
    [s EXCEPT !.messageParams =
        SubSeq(@, 1, IF count + 1 < Len(@) THEN count + 1 ELSE Len(@))]

\* truncateMessages(count): the messages beyond the first count are
\* discarded; nothing changes when count >= length.
TruncateMessagesCase(s, count) ==
    IF count >= Len(s.messageParams) THEN s
    ELSE [s EXCEPT !.messageParams = SubSeq(@, 1, count)]

\* The store with truncateMessages dispatched on it.  The history keeps the
\* payloads whose messages were not discarded, as they were handed in.
truncateMessages ==
    \E count \in 0..MaxMessages :
        /\ state' = TruncateMessagesCase(state, count)
        /\ event' = [type |-> "truncate-messages", value |-> <<count>>]
        /\ hist' = [hist EXCEPT
                        !.appended = IF count < Len(@) THEN SubSeq(@, 1, count) ELSE @,
                        !.truncated = @ \/ count < Len(hist.appended)]
        /\ UNCHANGED <<orchVars, toolVars, heapVars>>

NextTruncate ==
    \/ DispatchAppendToMessageParams
    \/ DispatchAppendToMessageUsages
    \/ resetState
    \/ truncateMessages

TruncateSpec == InitStore /\ [][NextTruncate]_vars

-----------------------------------------------------------------------------
(* JavaScript strings, as sequences of characters *)

\* content.indexOf(sep): the first position (from 1) at which sep occurs in s,
\* 0 when there is none; the empty sep occurs at the start.
IndexOf(s, sep) ==
    LET at == {i \in 1..(Len(s) + 1) :
                  /\ i + Len(sep) - 1 <= Len(s)
                  /\ SubSeq(s, i, i + Len(sep) - 1) = sep}
    IN IF at = {} THEN 0 ELSE CHOOSE i \in at : \A j \in at : i <= j

RECURSIVE split(_, _)
\* String.prototype.split(sep) with a string separator: an empty separator
\* gives the characters one by one; otherwise s is cut at the occurrences of
\* sep found from left to right, each search starting behind the previous
\* occurrence.
split(s, sep) ==
    IF sep = <<>> THEN [i \in 1..Len(s) |-> <<s[i]>>]
    ELSE IF IndexOf(s, sep) = 0 THEN <<s>>
    ELSE <<SubSeq(s, 1, IndexOf(s, sep) - 1)>>
           \o split(SubSeq(s, IndexOf(s, sep) + Len(sep), Len(s)), sep)

RECURSIVE join(_, _)
\* Array.prototype.join(sep)
join(pieces, sep) ==
    IF pieces = <<>> THEN <<>>
    ELSE IF Len(pieces) = 1 THEN pieces[1]
    ELSE pieces[1] \o sep \o join(Tail(pieces), sep)

\* The grave accent and the apostrophe, as characters of a string.
GraveAccent == "GRAVE ACCENT"
Apostrophe == "APOSTROPHE"

RECURSIVE GetSubstitution(_, _, _, _)
\* The replacement text String.prototype.replace builds from a string
\* replaceValue: $$ stands for $, $& for the matched text, $ with a grave
\* accent for the text before the match and $ with an apostrophe for the text
\* after it; with a string pattern there are no captures, so $1.. and $< stay
\* as written.
GetSubstitution(matched, before, after, templ) ==
    IF templ = <<>> THEN <<>>
    ELSE IF templ[1] = "$" /\ Len(templ) >= 2 /\ templ[2] \in {"$", "&", GraveAccent, Apostrophe}
    THEN (CASE templ[2] = "$" -> <<"$">>
            [] templ[2] = "&" -> matched
            [] templ[2] = GraveAccent -> before
            [] templ[2] = Apostrophe -> after)
           \o GetSubstitution(matched, before, after, SubSeq(templ, 3, Len(templ)))
    ELSE <<templ[1]>> \o GetSubstitution(matched, before, after, Tail(templ))

\* String.prototype.replace(searchValue, replaceValue), both strings: the
\* first occurrence is replaced by the substitution built from replaceValue.
replace(s, searchValue, replaceValue) ==
    IF IndexOf(s, searchValue) = 0 THEN s
    ELSE LET pos == IndexOf(s, searchValue)
             before == SubSeq(s, 1, pos - 1)
             after == SubSeq(s, pos + Len(searchValue), Len(s))
         IN before \o GetSubstitution(searchValue, before, after, replaceValue) \o after

\* Array.prototype.slice(start, end): negative arguments count from the end.
slice(a, start, end) ==
    LET rel(x) == IF x < 0 THEN (IF Len(a) + x < 0 THEN 0 ELSE Len(a) + x)
                  ELSE (IF x > Len(a) THEN Len(a) ELSE x)
    IN SubSeq(a, rel(start) + 1, rel(end))

Digits == <<"0", "1", "2", "3", "4", "5", "6", "7", "8", "9">>

RECURSIVE NumberToString(_)
\* `${n}` for an integer n
NumberToString(n) ==
    IF n < 0 THEN <<"-">> \o NumberToString(0 - n)
    ELSE IF n < 10 THEN <<Digits[n + 1]>>
    ELSE NumberToString(n \div 10) \o <<Digits[(n % 10) + 1]>>

-----------------------------------------------------------------------------
(* tools.ts: schemas and executors, on one path of the disk *)

MaxLen == 2     \* length of the string arguments; a file read by a tool
                \* holds at most MaxLen + 1 characters

Chars == {"a", "$", "\n"}

Strings(alphabet, n) == UNION {[1..k -> alphabet] : k \in 0..n}

\* JSON values of a tool_use input, by their JavaScript type.
StringValue(s) == [t |-> "string", s |-> s, n |-> 0]
IntegerValue(n) == [t |-> "integer", s |-> <<>>, n |-> n]
FloatValue == [t |-> "float", s |-> <<>>, n |-> 0]
NullValue == [t |-> "null", s |-> <<>>, n |-> 0]

\* The path every invocation names.
Path == StringValue(<<"f">>)

\* z.object({...}).strict(): the required fields and the optional fields,
\* each with the type it must have.
BashToolInputSchema ==
    [required |-> [command |-> "string"], optional |-> <<>>]

CreateFileToolSchema ==
    [required |-> [path |-> "string", content |-> "string"], optional |-> <<>>]

ViewFileToolInputSchema ==
    [required |-> [path |-> "string"],
     optional |-> [start_line |-> "integer", end_line |-> "integer"]]

StrReplaceToolInputSchema ==
    [required |-> [path |-> "string", old_str |-> "string", new_str |-> "string"],
     optional |-> <<>>]

InsertLinesToolInputSchema ==
    [required |-> [path |-> "string", after_line |-> "integer", content |-> "string"],
     optional |-> <<>>]

\* Mutant: the object schema without .strict(), unknown keys are dropped.
parseNotStrict(schema, input) ==
    /\ \A f \in DOMAIN schema.required :
          f \in DOMAIN input /\ input[f].t = schema.required[f]
    /\ \A f \in DOMAIN schema.optional \cap DOMAIN input :
          input[f].t = schema.optional[f]

\* Schema.parse(toolUseBlock.input) returns (TRUE) or throws a ZodError
\* (FALSE): no unknown key, every required key present with its type, every
\* optional key that is present with its type.
parse(schema, input) ==
    /\ DOMAIN input \subseteq DOMAIN schema.required \cup DOMAIN schema.optional
    /\ \A f \in DOMAIN schema.required :
          f \in DOMAIN input /\ input[f].t = schema.required[f]
    /\ \A f \in DOMAIN schema.optional \cap DOMAIN input :
          input[f].t = schema.optional[f]

\* The disk at the path: nothing, a directory, or a file with its content.
Absent == [kind |-> "absent"]
Directory == [kind |-> "dir", entries |-> <<<<"a">>, <<"f">>>>]
File(content) == [kind |-> "file", content |-> content]

\* One operation on the disk or one child process, and whether it succeeded.
Op(name, ok) == [op |-> name, ok |-> ok]

\* A tool_result block with its content: a message of the executor (msg) or
\* text taken from the disk or the process (text).
ToolResult(id, msg, text, isError) ==
    [type |-> "tool_result", tool_use_id |-> id, is_error |-> isError,
     content |-> [msg |-> msg, text |-> text], cache_control |-> "absent"]

\* How an executor ends: it throws, or returns a block; the disk afterwards
\* and the operations performed.
Thrown(f, ops) == [threw |-> TRUE, block |-> None, file |-> f, io |-> ops]
Returned(block, f, ops) == [threw |-> FALSE, block |-> block, file |-> f, io |-> ops]

\* The operation an executor wraps in tryCatch fails when the disk cannot
\* serve it or when the environment makes it fail (fault names the operation).
ReadFails(f, fault) == f.kind # "file" \/ fault = "read"
StatFails(f, fault) == f.kind = "absent" \/ fault = "stat"

\* executeBashTool; the command run leaves the path as it is.
executeBashTool(toolUseBlock, f, fault) ==
    IF ~parse(BashToolInputSchema, toolUseBlock.input) THEN Thrown(f, <<>>)
    ELSE IF fault = "exec"
    THEN Returned(ToolResult(toolUseBlock.id, "error", <<>>, TRUE), f,
                  <<Op("exec", FALSE)>>)
    ELSE Returned(ToolResult(toolUseBlock.id, "stdout, stderr", <<>>, FALSE), f,
                  <<Op("exec", TRUE)>>)

\* executeCreateFileTool
executeCreateFileTool(toolUseBlock, f, fault) ==
    IF ~parse(CreateFileToolSchema, toolUseBlock.input) THEN Thrown(f, <<>>)
    ELSE IF f.kind # "absent"
    THEN Returned(ToolResult(toolUseBlock.id, "already exists", <<>>, TRUE), f,
                  <<Op("exists", TRUE)>>)
    ELSE IF fault = "write"
    THEN Returned(ToolResult(toolUseBlock.id, "error", <<>>, TRUE), f,
                  <<Op("exists", TRUE), Op("write", FALSE)>>)
    ELSE Returned(ToolResult(toolUseBlock.id, "created successfully", <<>>, FALSE),
                  File(toolUseBlock.input.content.s),
                  <<Op("exists", TRUE), Op("write", TRUE)>>)

\* Mutant: the lines of the slice are numbered from 1.
NumberedFromOne(lines, start) ==
    [i \in 1..Len(lines) |-> NumberToString(i) \o <<"\t">> \o lines[i]]

\* slice.map((line, i) => `${String(start + i + 1)}\t${line}`)
Numbered(lines, start) ==
    [i \in 1..Len(lines) |-> NumberToString(start + (i - 1) + 1) \o <<"\t">> \o lines[i]]

\* executeViewFileTool
executeViewFileTool(toolUseBlock, f, fault) ==
    IF ~parse(ViewFileToolInputSchema, toolUseBlock.input) THEN Thrown(f, <<>>)
    ELSE IF StatFails(f, fault)
    THEN Returned(ToolResult(toolUseBlock.id, "error", <<>>, TRUE), f,
                  <<Op("stat", FALSE)>>)
    ELSE IF f.kind = "dir"
    THEN IF fault = "readdir"
         THEN Returned(ToolResult(toolUseBlock.id, "error", <<>>, TRUE), f,
                       <<Op("stat", TRUE), Op("readdir", FALSE)>>)
         ELSE Returned(ToolResult(toolUseBlock.id, "", join(f.entries, <<"\n">>), FALSE),
                       f, <<Op("stat", TRUE), Op("readdir", TRUE)>>)
    ELSE IF ReadFails(f, fault)
    THEN Returned(ToolResult(toolUseBlock.id, "error", <<>>, TRUE), f,
                  <<Op("stat", TRUE), Op("read", FALSE)>>)
    ELSE LET input == toolUseBlock.input
             lines == split(f.content, <<"\n">>)
             start == (IF "start_line" \in DOMAIN input THEN input.start_line.n ELSE 1) - 1
             end == IF "end_line" \notin DOMAIN input \/ input.end_line.n = -1
                    THEN Len(lines) ELSE input.end_line.n
             numbered == join(Numbered(slice(lines, start, end), start), <<"\n">>)
         IN Returned(ToolResult(toolUseBlock.id, "", numbered, FALSE), f,
                     <<Op("stat", TRUE), Op("read", TRUE)>>)

\* executeStrReplaceTool
executeStrReplaceTool(toolUseBlock, f, fault) ==
    IF ~parse(StrReplaceToolInputSchema, toolUseBlock.input) THEN Thrown(f, <<>>)
    ELSE IF ReadFails(f, fault)
    THEN Returned(ToolResult(toolUseBlock.id, "error", <<>>, TRUE), f,
                  <<Op("read", FALSE)>>)
    ELSE LET old_str == toolUseBlock.input.old_str.s
             new_str == toolUseBlock.input.new_str.s
             occurrences == Len(split(f.content, old_str)) - 1
         IN IF occurrences = 0
            THEN Returned(ToolResult(toolUseBlock.id, "old_str not found in file",
                                     <<>>, TRUE),
                          f, <<Op("read", TRUE)>>)
            ELSE IF occurrences > 1
            THEN Returned(ToolResult(toolUseBlock.id, "old_str matched more than once",
                                     <<>>, TRUE),
                          f, <<Op("read", TRUE)>>)
            ELSE IF fault = "write"
            THEN Returned(ToolResult(toolUseBlock.id, "error", <<>>, TRUE), f,
                          <<Op("read", TRUE), Op("write", FALSE)>>)
            ELSE Returned(ToolResult(toolUseBlock.id, "updated successfully", <<>>, FALSE),
                          File(replace(f.content, old_str, new_str)),
                          <<Op("read", TRUE), Op("write", TRUE)>>)

\* Mutant: splice with a delete count of 1.
spliceReplacesLine(lines, after_line, content) ==
    SubSeq(lines, 1, after_line) \o <<content>> \o SubSeq(lines, after_line + 2, Len(lines))

\* lines.splice(after_line, 0, content)
splice(lines, after_line, content) ==
    SubSeq(lines, 1, after_line) \o <<content>> \o SubSeq(lines, after_line + 1, Len(lines))

\* executeInsertLinesTool
executeInsertLinesTool(toolUseBlock, f, fault) ==
    IF ~parse(InsertLinesToolInputSchema, toolUseBlock.input) THEN Thrown(f, <<>>)
    ELSE IF ReadFails(f, fault)
    THEN Returned(ToolResult(toolUseBlock.id, "error", <<>>, TRUE), f,
                  <<Op("read", FALSE)>>)
    ELSE LET after_line == toolUseBlock.input.after_line.n
             lines == split(f.content, <<"\n">>)
         IN IF after_line < 0 \/ after_line > Len(lines)
            THEN Returned(ToolResult(toolUseBlock.id, "after_line is out of range",
                                     <<>>, TRUE),
                          f, <<Op("read", TRUE)>>)
            ELSE IF fault = "write"
            THEN Returned(ToolResult(toolUseBlock.id, "error", <<>>, TRUE), f,
                          <<Op("read", TRUE), Op("write", FALSE)>>)
            ELSE Returned(ToolResult(toolUseBlock.id, "updated successfully", <<>>, FALSE),
                          File(join(splice(lines, after_line,
                                           toolUseBlock.input.content.s), <<"\n">>)),
                          <<Op("read", TRUE), Op("write", TRUE)>>)

\* getToolResultBlock with the executors run on the disk: the switch on the
\* name; without a matching case no block was made and it throws.
getToolResultBlockOnDisk(toolUseBlock, f, fault) ==
    CASE toolUseBlock.name = "bash" -> executeBashTool(toolUseBlock, f, fault)
      [] toolUseBlock.name = "create_file" -> executeCreateFileTool(toolUseBlock, f, fault)
      [] toolUseBlock.name = "view_file" -> executeViewFileTool(toolUseBlock, f, fault)
      [] toolUseBlock.name = "str_replace" -> executeStrReplaceTool(toolUseBlock, f, fault)
      [] toolUseBlock.name = "insert_lines" -> executeInsertLinesTool(toolUseBlock, f, fault)
      [] OTHER -> Thrown(f, <<>>)

-----------------------------------------------------------------------------
(* The tools on their own: getToolResultBlock on arbitrary invocations *)

ToolUseIds == {1, 2}

LineNumbers == -1..(MaxLen + 2)

\* Inputs their schema accepts.
ValidInputs ==
    [bash |-> {[command |-> StringValue(<<"a">>)]},
     create_file |-> {[path |-> Path, content |-> StringValue(c)]
                        : c \in Strings(Chars, MaxLen)},
     view_file |-> {[path |-> Path]}
                     \cup {[path |-> Path, start_line |-> IntegerValue(s)]
                             : s \in LineNumbers}
                     \cup {[path |-> Path, end_line |-> IntegerValue(e)]
                             : e \in LineNumbers}
                     \cup {[path |-> Path, start_line |-> IntegerValue(s),
                            end_line |-> IntegerValue(e)]
                             : s \in LineNumbers, e \in LineNumbers},
     str_replace |-> {[path |-> Path, old_str |-> StringValue(o),
                       new_str |-> StringValue(n)]
                        : o \in Strings({"a", "$"}, MaxLen),
                          n \in Strings({"a", "$", "&"}, MaxLen)},
     insert_lines |-> {[path |-> Path, after_line |-> IntegerValue(k),
                        content |-> StringValue(c)]
                         : k \in LineNumbers, c \in Strings({"a", "\n"}, MaxLen)}]

\* One accepted input per tool, with every field of the schema.
FullInput ==
    [bash |-> [command |-> StringValue(<<"a">>)],
     create_file |-> [path |-> Path, content |-> StringValue(<<"a">>)],
     view_file |-> [path |-> Path, start_line |-> IntegerValue(1),
                    end_line |-> IntegerValue(2)],
     str_replace |-> [path |-> Path, old_str |-> StringValue(<<"a">>),
                      new_str |-> StringValue(<<"$">>)],
     insert_lines |-> [path |-> Path, after_line |-> IntegerValue(0),
                       content |-> StringValue(<<"a">>)]]

ToolSchemas ==
    [bash |-> BashToolInputSchema,
     create_file |-> CreateFileToolSchema,
     view_file |-> ViewFileToolInputSchema,
     str_replace |-> StrReplaceToolInputSchema,
     insert_lines |-> InsertLinesToolInputSchema]

Without(input, f) == [g \in DOMAIN input \ {f} |-> input[g]]

WithField(input, f, v) ==
    [g \in DOMAIN input \cup {f} |-> IF g = f THEN v ELSE input[g]]

\* Values of another type than the one named.
WrongValues(type) ==
    IF type = "string" THEN {IntegerValue(1), NullValue}
    ELSE {StringValue(<<"1">>), FloatValue, NullValue}

\* The inputs a tool is invoked with, by shape: accepted by the schema, a
\* required field missing, an unknown field added, a field of a wrong type.
Inputs(name, shape) ==
    LET schema == ToolSchemas[name]
        full == FullInput[name]
        typeOf(f) == IF f \in DOMAIN schema.required THEN schema.required[f]
                     ELSE schema.optional[f]
    IN CASE shape = "valid" -> ValidInputs[name]
         [] shape = "missing" -> {Without(full, f) : f \in DOMAIN schema.required}
         [] shape = "extra" -> {WithField(full, "extra", StringValue(<<"a">>))}
         [] shape = "wrongType" ->
              UNION {{WithField(full, f, v) : v \in WrongValues(typeOf(f))}
                       : f \in DOMAIN full}

Shapes == {"valid", "missing", "extra", "wrongType"}

\* What the environment can make fail during the dispatch of a tool.
Faults ==
    [bash |-> {"none", "exec"},
     create_file |-> {"none", "write"},
     view_file |-> {"none", "stat", "readdir", "read"},
     str_replace |-> {"none", "read", "write"},
     insert_lines |-> {"none", "read", "write"}]

InitTools ==
    /\ state = initialState
    /\ pc = "Tools"
    /\ currQuestionAbortController = FALSE
    /\ currApiStream = "null"
    /\ messageParam = None
    /\ currentMessage = None
    /\ blockIdx = 0
    /\ toolResults = <<>>
    /\ logs = <<>>
    /\ event = [type |-> "start", value |-> <<>>]
    /\ hist = InitHist
    /\ file \in {Absent, Directory} \cup {File(c) : c \in Strings(Chars, MaxLen + 1)}
    /\ invocation = None
    /\ toolOutcome = None
    /\ io = <<>>
    /\ heap = NotFollowed
    /\ reader = NoReader

\* await getToolResultBlock(toolUseBlock), from the call to its settling.
Dispatch(toolUseBlock, shape, fault) ==
    /\ LET o == getToolResultBlockOnDisk(toolUseBlock, file, fault) IN
        /\ invocation' = toolUseBlock
        /\ toolOutcome' = [threw |-> o.threw, block |-> o.block]
        /\ file' = o.file
        /\ io' = o.io
    /\ event' = [type |-> shape, value |-> <<>>]
    /\ UNCHANGED <<state, orchVars, hist, heapVars>>

\* One tool_use block is dispatched, on the disk as it was found.
CanDispatch == invocation = None

DispatchTool(name) ==
    /\ CanDispatch
    /\ \E id \in ToolUseIds, shape \in Shapes, fault \in Faults[name] :
        \E input \in Inputs(name, shape) :
            Dispatch(ToolUseBlock(id, name, input), shape, fault)

DispatchBash == DispatchTool("bash")

DispatchCreateFile == DispatchTool("create_file")

DispatchViewFile == DispatchTool("view_file")

DispatchStrReplace == DispatchTool("str_replace")

DispatchInsertLines == DispatchTool("insert_lines")

\* A tool_use block whose name has no case in the switch.
DispatchUnknown ==
    /\ CanDispatch
    /\ \E id \in ToolUseIds :
        Dispatch(ToolUseBlock(id, "web_search", [query |-> StringValue(<<"a">>)]),
                 "unknownTool", "none")

NextTools ==
    \/ DispatchBash
    \/ DispatchCreateFile
    \/ DispatchViewFile
    \/ DispatchStrReplace
    \/ DispatchInsertLines
    \/ DispatchUnknown

ToolSpec == InitTools /\ [][NextTools]_vars

-----------------------------------------------------------------------------
(* config.ts: initStateFromConfig on the two settings files *)

ConfigKeys == {"model", "disableCostMessage", "pricingPerModel"}

\* A pricing table that differs from the default one.
CustomPricing ==
    [DEFAULT_CONFIG.pricingPerModel EXCEPT !["claude-opus-4-6"].inputPerToken = 99900]

Restrict(config, keys) == [k \in keys |-> config[k]]

\* The values ConfigSchema accepts: every field is optional.
Configs ==
    {Restrict(c, D) :
        c \in [model : SupportedModels, disableCostMessage : BOOLEAN,
               pricingPerModel : {DEFAULT_CONFIG.pricingPerModel, CustomPricing}],
        D \in SUBSET ConfigKeys}

\* A settings file by what JSON.parse and ConfigSchema.parse make of it.
JsonFile(config) == [kind |-> "json", config |-> config]

ConfigFiles ==
    {[kind |-> "absent"], [kind |-> "notJson"], [kind |-> "rejected"]}
      \cup {JsonFile(c) : c \in Configs}

\* parseConfigStr: JSON.parse, then ConfigSchema.parse; both throw.
parseConfigStr(f) ==
    IF f.kind = "json" THEN [threw |-> FALSE, config |-> f.config]
    ELSE [threw |-> TRUE, config |-> <<>>]

\* Mutant: || for ??, a defined false counts as missing.
CoalesceFalsy(config, key, fallback) ==
    IF key \in DOMAIN config /\ ~(key = "disableCostMessage" /\ config[key] = FALSE)
    THEN config[key] ELSE fallback

\* config.key ?? fallback
Coalesce(config, key, fallback) ==
    IF key \in DOMAIN config THEN config[key] ELSE fallback

\* localConfig.key ?? globalConfig.key ?? DEFAULT_CONFIG.key
ResolveKey(localConfig, globalConfig, key) ==
    Coalesce(localConfig, key, Coalesce(globalConfig, key, DEFAULT_CONFIG[key]))

ConfigThrew(s, global, ops) == [threw |-> TRUE, state |-> s, global |-> global, io |-> ops]

\* initStateFromConfig on the store s with the global file g and the local
\* file l; fault names the file-system call that fails, if any.
initStateFromConfig(s, g, l, fault) ==
    LET globalExists == g.kind # "absent"
        localExists == l.kind # "absent"
    IN
    IF globalExists /\ parseConfigStr(g).threw
    THEN ConfigThrew(s, g, <<Op("exists", TRUE), Op("read", TRUE)>>)
    ELSE IF ~globalExists /\ fault = "write"
    THEN ConfigThrew(s, g, <<Op("exists", TRUE), Op("write", FALSE)>>)
    ELSE
    LET globalConfig == IF globalExists THEN parseConfigStr(g).config ELSE DEFAULT_CONFIG
        global == IF globalExists THEN g ELSE JsonFile(DEFAULT_CONFIG)
        globalOps == <<Op("exists", TRUE),
                       IF globalExists THEN Op("read", TRUE) ELSE Op("write", TRUE)>>
    IN
    IF localExists /\ parseConfigStr(l).threw
    THEN ConfigThrew(s, global, globalOps \o <<Op("exists", TRUE), Op("read", TRUE)>>)
    ELSE
    LET localConfig == IF localExists THEN parseConfigStr(l).config ELSE <<>>
        s1 == reducer(s, setModel(ResolveKey(localConfig, globalConfig, "model")))
        s2 == reducer(s1, setDisableCostMessage(
                            ResolveKey(localConfig, globalConfig, "disableCostMessage")))
        s3 == reducer(s2, setPricingPerModel(
                            ResolveKey(localConfig, globalConfig, "pricingPerModel")))
    IN [threw |-> FALSE, state |-> s3, global |-> global,
        io |-> globalOps \o <<Op("exists", TRUE)>>
                 \o (IF localExists THEN <<Op("read", TRUE)>> ELSE <<>>)]

\* The store before the call: as constructed, or with a configuration set
\* by earlier dispatches.
InitConfig ==
    /\ state \in {initialState,
                  reducer(reducer(reducer(initialState, setModel("claude-haiku-4-5")),
                                  setDisableCostMessage(TRUE)),
                          setPricingPerModel(CustomPricing))}
    /\ pc = "Config"
    /\ currQuestionAbortController = FALSE
    /\ currApiStream = "null"
    /\ messageParam = None
    /\ currentMessage = None
    /\ blockIdx = 0
    /\ toolResults = <<>>
    /\ logs = <<>>
    /\ event = [type |-> "start", value |-> <<>>]
    /\ hist = InitHist
    /\ file \in [global : ConfigFiles, local : ConfigFiles]
    /\ invocation = None
    /\ toolOutcome = None
    /\ io = <<>>
    /\ heap = NotFollowed
    /\ reader = NoReader

\* One call of initStateFromConfig, from its first statement to its return
\* or throw.
InitStateFromConfig ==
    /\ pc = "Config"
    /\ \E fault \in {"none", "write"} :
        LET r == initStateFromConfig(state, file.global, file.local, fault) IN
        /\ state' = r.state
        /\ file' = [file EXCEPT !.global = r.global]
        /\ io' = r.io
        /\ event' = [type |-> IF r.threw THEN "threw" ELSE "returned", value |-> <<>>]
        /\ pc' = IF r.threw THEN "Fatal" ELSE "Configured"
    /\ UNCHANGED <<currQuestionAbortController, currApiStream, messageParam,
                   currentMessage, blockIdx, toolResults, logs, hist, invocation,
                   toolOutcome, heapVars>>

NextConfig == InitStateFromConfig

ConfigSpec == InitConfig /\ [][NextConfig]_vars

-----------------------------------------------------------------------------
(* utils.ts: calculateSessionCost on a usage log *)

\* A cache token count of a usage record: the field is optional and nullable.
Undefined == [kind |-> "undefined", n |-> 0]
Null == [kind |-> "null", n |-> 0]
Number(n) == [kind |-> "number", n |-> n]

\* The usage records a log is drawn from.
TokenUsages ==
    [input_tokens : {0, 10},
     output_tokens : {0, 3000},
     cache_creation_input_tokens : {Undefined, Null, Number(1000000)},
     cache_read_input_tokens : {Undefined, Number(10)}]

UsageLogs == UNION {[1..n -> TokenUsages] : n \in 0..MaxUsages}

\* count ?? 0
OrZero(count) == IF count.kind = "number" THEN count.n ELSE 0

RECURSIVE totalUsage(_)
\* usages.reduce((accum, curr) => ..., {0, 0, 0, 0}): a fold from the left.
totalUsage(usages) ==
    IF usages = <<>>
    THEN [cache_creation_input_tokens |-> 0, cache_read_input_tokens |-> 0,
          input_tokens |-> 0, output_tokens |-> 0]
    ELSE LET accum == totalUsage(SubSeq(usages, 1, Len(usages) - 1))
             curr == usages[Len(usages)]
         IN [cache_creation_input_tokens |->
                accum.cache_creation_input_tokens + OrZero(curr.cache_creation_input_tokens),
             cache_read_input_tokens |->
                accum.cache_read_input_tokens + OrZero(curr.cache_read_input_tokens),
             input_tokens |-> accum.input_tokens + curr.input_tokens,
             output_tokens |-> accum.output_tokens + curr.output_tokens]

\* Prices are hundredths of a dollar per million tokens, the printed amount
\* has four decimals: one unit of the amount is this many token-prices.
UnitsPerAmount == 10000

\* n.toFixed(4) of an amount given in ten-thousandths.
toFixed(amount) ==
    NumberToString(amount \div 10000) \o <<".">>
      \o <<Digits[((amount \div 1000) % 10) + 1], Digits[((amount \div 100) % 10) + 1],
           Digits[((amount \div 10) % 10) + 1], Digits[(amount % 10) + 1]>>

\* Mutant: cache creation is priced at the one-hour write price.
calculateSessionCostWrite1h(model, usages, pricingPerModel) ==
    LET pricing == pricingPerModel[model]
        total == totalUsage(usages)
        inputCost == total.input_tokens * pricing.inputPerToken
        outputCost == total.output_tokens * pricing.outputPerToken
        cacheCreationCost == total.cache_creation_input_tokens * pricing.cacheWrite1hPerToken
        cacheReadCost == total.cache_read_input_tokens * pricing.cacheReadPerToken
        cost == inputCost + outputCost + cacheCreationCost + cacheReadCost
        down == cost \div UnitsPerAmount
        rest == cost % UnitsPerAmount
        amounts == IF 2 * rest < UnitsPerAmount THEN {down}
                   ELSE IF 2 * rest > UnitsPerAmount THEN {down + 1}
                   ELSE {down, down + 1}
    IN {<<"Session cost: $">> \o toFixed(a) : a \in amounts}

\* calculateSessionCost: the strings it can return.  cost.toFixed(4) rounds
\* to the nearest ten-thousandth; a cost exactly half way between two comes
\* out as either, depending on the double that represents it.
calculateSessionCost(model, usages, pricingPerModel) ==
    LET pricing == pricingPerModel[model]
        total == totalUsage(usages)
        inputCost == total.input_tokens * pricing.inputPerToken
        outputCost == total.output_tokens * pricing.outputPerToken
        cacheCreationCost == total.cache_creation_input_tokens * pricing.cacheWrite5mPerToken
        cacheReadCost == total.cache_read_input_tokens * pricing.cacheReadPerToken
        cost == inputCost + outputCost + cacheCreationCost + cacheReadCost
        down == cost \div UnitsPerAmount
        rest == cost % UnitsPerAmount
        amounts == IF 2 * rest < UnitsPerAmount THEN {down}
                   ELSE IF 2 * rest > UnitsPerAmount THEN {down + 1}
                   ELSE {down, down + 1}
    IN {<<"Session cost: $">> \o toFixed(a) : a \in amounts}

\* A store with some usage log, model and pricing table.
InitCost ==
    /\ \E usages \in UsageLogs, model \in SupportedModels,
          pricingPerModel \in {DEFAULT_CONFIG.pricingPerModel, CustomPricing} :
        state = [initialState EXCEPT !.messageUsages = usages,
                                     !.model = model,
                                     !.pricingPerModel = pricingPerModel]
    /\ pc = "Cost"
    /\ currQuestionAbortController = FALSE
    /\ currApiStream = "null"
    /\ messageParam = None
    /\ currentMessage = None
    /\ blockIdx = 0
    /\ toolResults = <<>>
    /\ logs = <<>>
    /\ event = [type |-> "start", value |-> <<>>]
    /\ hist = InitHist
    /\ file = [kind |-> "absent"]
    /\ invocation = None
    /\ toolOutcome = None
    /\ io = <<>>
    /\ heap = NotFollowed
    /\ reader = NoReader

\* colorLog(calculateSessionCost(selectors.getModel(),
\*                               selectors.getMessageUsages()), "green")
PrintCostMessage ==
    /\ pc = "Cost"
    /\ \E text \in calculateSessionCost(state.model, state.messageUsages,
                                        state.pricingPerModel) :
        logs' = <<text>>
    /\ pc' = "Costed"
    /\ event' = [type |-> "cost", value |-> <<>>]
    /\ UNCHANGED <<state, currQuestionAbortController, currApiStream, messageParam,
                   currentMessage, blockIdx, toolResults, hist, toolVars,
                   heapVars>>

NextCost == PrintCostMessage

CostSpec == InitCost /\ [][NextCost]_vars

-----------------------------------------------------------------------------
(* state.ts as objects: what structuredClone and the reducer allocate *)

\* The objects are kept in a sequence; a reference is a position in it, and
\* a new object is put at the end.

\* const initialState: the first object, never reassigned.
InitialStateRef == 1

\* A State object: its fields, with messageParams as the references of the
\* array's elements.  The array and the nested appState and configState are
\* one with the object: they are cloned and reached together.
StateCell(s, messageRefs) ==
    [kind |-> "state", fields |-> [s EXCEPT !.messageParams = messageRefs]]

\* A MessageParam object.
MessageCell(message) == [kind |-> "message", value |-> message]

\* The State value a holder of the reference ref reads through it.
Deref(cells, ref) ==
    LET fields == cells[ref].fields IN
    [fields EXCEPT !.messageParams =
        [i \in 1..Len(fields.messageParams) |-> cells[fields.messageParams[i]].value]]

\* Objects that cannot be reached any more from initialState, `state` or the
\* reader are given back, and the others are moved up, in the order in which
\* they are reached: a program can compare references but cannot tell where
\* an object lies.
Collect(cells, stateRef, readerRef) ==
    LET roots == <<InitialStateRef>>
                   \o (IF stateRef = InitialStateRef THEN <<>> ELSE <<stateRef>>)
                   \o (IF readerRef \in {NoRef, InitialStateRef, stateRef}
                       THEN <<>> ELSE <<readerRef>>)
        Messages(r) == IF r <= Len(roots)
                       THEN cells[roots[r]].fields.messageParams ELSE <<>>
        reached == Messages(1) \o Messages(2) \o Messages(3)
        messages == {reached[i] : i \in 1..Len(reached)}
        First(a) == CHOOSE i \in 1..Len(reached) :
                        /\ reached[i] = a
                        /\ \A j \in 1..(i - 1) : reached[j] # a
        Rank(a) == Cardinality({reached[j] : j \in 1..First(a)})
        Moved(a) == IF a \in messages THEN Len(roots) + Rank(a)
                    ELSE CHOOSE r \in 1..Len(roots) : roots[r] = a
    IN [cells |-> [i \in 1..(Len(roots) + Cardinality(messages)) |->
                     IF i <= Len(roots)
                     THEN [cells[roots[i]] EXCEPT !.fields.messageParams =
                              [k \in 1..Len(@) |->
                                  Moved(cells[roots[i]].fields.messageParams[k])]]
                     ELSE cells[CHOOSE m \in messages : Rank(m) = i - Len(roots)]],
        state |-> Moved(stateRef),
        reader |-> IF readerRef = NoRef THEN NoRef ELSE Moved(readerRef)]

\* Mutant: the reducer works on the state object it was given.
structuredCloneSameObject(cells, ref) == [cells |-> cells, ref |-> ref]

\* structuredClone(state): a new State object with a new object for every
\* message, equal in value to what it was made from.
structuredClone(cells, ref) ==
    LET fields == cells[ref].fields
        n == Len(fields.messageParams)
        root == Len(cells) + 1
    IN [cells |-> cells \o <<StateCell(fields, [i \in 1..n |-> root + i])>>
                        \o [i \in 1..n |-> cells[fields.messageParams[i]]],
        ref |-> root]

\* The reducer on objects: every case clones the state it is given, assigns
\* to the clone and returns it.  In the append case the map returns a
\* string-content message as it is and a new object for any other, and the
\* payload is pushed as the object the caller handed in.
heapReducer(cells, ref, action) ==
    LET clone == structuredClone(cells, ref)
        newState == clone.ref
        c == clone.cells
        fields == c[newState].fields
    IN
    CASE action.type = "set-interrupted" ->
            [cells |-> [c EXCEPT ![newState].fields.interrupted = action.payload],
             ref |-> newState]
      [] action.type = "set-running" ->
            [cells |-> [c EXCEPT ![newState].fields.running = action.payload],
             ref |-> newState]
      [] action.type = "append-to-message-params" ->
            LET n == Len(fields.messageParams)
                arrays == {i \in 1..n : ~IsString(c[fields.messageParams[i]].value.content)}
                Nth(k) == CHOOSE i \in arrays : Cardinality({j \in arrays : j <= i}) = k
                mapped == [i \in 1..n |->
                             IF i \in arrays
                             THEN Len(c) + Cardinality({j \in arrays : j <= i})
                             ELSE fields.messageParams[i]]
                c2 == c \o [k \in 1..Cardinality(arrays) |->
                              MessageCell(ClearCacheControl(
                                  c[fields.messageParams[Nth(k)]].value))]
            IN [cells |-> [c2 EXCEPT ![newState].fields.messageParams =
                                          Append(mapped, action.payload)],
                ref |-> newState]
      [] action.type = "append-to-message-usages" ->
            [cells |-> [c EXCEPT ![newState].fields.messageUsages =
                                        Append(@, action.payload)],
             ref |-> newState]
      [] action.type = "set-model" ->
            [cells |-> [c EXCEPT ![newState].fields.model = action.payload],
             ref |-> newState]
      [] action.type = "set-pricing-per-model" ->
            [cells |-> [c EXCEPT ![newState].fields.pricingPerModel = action.payload],
             ref |-> newState]
      [] action.type = "set-disable-cost-message" ->
            [cells |-> [c EXCEPT ![newState].fields.disableCostMessage = action.payload],
             ref |-> newState]

\* let state = structuredClone(initialState), with initialState in place.
InitialHeap ==
    LET clone == structuredClone(<<StateCell(initialState, <<>>)>>, InitialStateRef)
        kept == Collect(clone.cells, clone.ref, NoRef)
    IN [cells |-> kept.cells, state |-> kept.state]

\* The actions dispatched on the objects.
HeapPayloads ==
    {Message("user", StringContent("hi")),
     Message("user", ArrayContent(<<TextBlock(Hello, "ephemeral")>>))}

HeapActions ==
    {appendToMessageParams(m) : m \in HeapPayloads}
      \cup {setRunning(FALSE), setModel("claude-sonnet-4-6")}

InitHeap ==
    /\ state = initialState
    /\ pc = "Heap"
    /\ currQuestionAbortController = FALSE
    /\ currApiStream = "null"
    /\ messageParam = None
    /\ currentMessage = None
    /\ blockIdx = 0
    /\ toolResults = <<>>
    /\ logs = <<>>
    /\ event = [type |-> "start", value |-> <<>>]
    /\ hist = InitHist
    /\ file = [kind |-> "absent"]
    /\ invocation = None
    /\ toolOutcome = None
    /\ io = <<>>
    /\ heap = InitialHeap
    /\ reader = NoReader

\* A caller of getState() keeps the reference it is given; what it reads
\* through it at that time is recorded next to it.
getState ==
    /\ reader' = [ref |-> heap.state, seen |-> Deref(heap.cells, heap.state)]
    /\ UNCHANGED <<state, orchVars, event, hist, toolVars, heap>>

\* dispatch on the objects: state = reducer(getState(), action).  The payload
\* of an append is an object of the caller's.
dispatchOnHeap(action) ==
    /\ LET isAppend == action.type = "append-to-message-params"
           payloadRef == Len(heap.cells) + 1
           cells == IF isAppend
                    THEN Append(heap.cells, MessageCell(action.payload))
                    ELSE heap.cells
           byRef == IF isAppend THEN [action EXCEPT !.payload = payloadRef] ELSE action
           r == heapReducer(cells, heap.state, byRef)
           kept == Collect(r.cells, r.ref, reader.ref)
       IN /\ heap' = [cells |-> kept.cells, state |-> kept.state]
          /\ reader' = [reader EXCEPT !.ref = kept.reader]
    /\ state' = reducer(state, action)
    /\ UNCHANGED <<orchVars, event, hist, toolVars>>

DispatchOnHeap ==
    \E action \in HeapActions :
        /\ action.type = "append-to-message-params"
              => Len(state.messageParams) < MaxMessages
        /\ dispatchOnHeap(action)

\* resetState on the objects: state = structuredClone(initialState).
resetStateOnHeap ==
    /\ LET r == structuredClone(heap.cells, InitialStateRef)
           kept == Collect(r.cells, r.ref, reader.ref)
       IN /\ heap' = [cells |-> kept.cells, state |-> kept.state]
          /\ reader' = [reader EXCEPT !.ref = kept.reader]
    /\ state' = initialState
    /\ UNCHANGED <<orchVars, event, hist, toolVars>>

NextHeap ==
    \/ getState
    \/ DispatchOnHeap
    \/ resetStateOnHeap

HeapSpec == InitHeap /\ [][NextHeap]_vars

-----------------------------------------------------------------------------
(* Properties *)

\* Some block of an array-content message carries an active cache marker.
CacheMarked(message) ==
    /\ ~IsString(message.content)
    /\ \E i \in 1..Len(message.content.blocks) :
            message.content.blocks[i].cache_control = "ephemeral"

Role(i) == state.messageParams[i].role

Blocks(i) == state.messageParams[i].content.blocks

\* C1: after every appendMessage, whatever the payloads, only the final
\* message can carry a cache marker; every earlier array-content message has
\* none.
C1_OnlyFinalMessageMarked ==
    \A i \in 1..(Len(state.messageParams) - 1) : ~CacheMarked(state.messageParams[i])

\* A marked message was appended, then another marked one after it.
C1_Witness ==
    /\ Len(state.messageParams) >= 2
    /\ state.messageParams[1].content = ArrayContent(<<TextBlock(Hello, "null")>>)
    /\ CacheMarked(state.messageParams[Len(state.messageParams)])

\* C2: once a model call of a turn was cancelled, at whatever depth, the store
\* holds exactly the k messages it held when the turn started.
C2_CancelledTurnDiscarded ==
    hist.outcome = "aborted" => Len(state.messageParams) = hist.k

\* C3: when the first model call of a turn is cancelled, the message list is
\* the one from before the turn, no usage record was added, and the
\* orchestrator awaits input again.
C3_FirstCallCancelled ==
    [][(pc = "CallingModel" /\ event'.type = "APIUserAbortError")
          => /\ state'.messageParams = hist.before
             /\ state'.messageUsages = state.messageUsages
             /\ Len(state'.messageUsages) = hist.u
             /\ pc' = "AwaitingInput"]_vars

\* The first call of a later turn was cancelled: nothing of the turn is in
\* the store, which holds the messages of an earlier turn.
C3_Witness ==
    /\ event.type = "APIUserAbortError"
    /\ hist.outcome = "aborted"
    /\ pc = "AwaitingInput"
    /\ hist.k >= 2
    /\ state.messageParams = hist.before

\* C4: a turn whose first reply does not ask for a tool adds the user message
\* and then the assistant reply, and one usage record.
C4_PlainTurnAddsTwoMessages ==
    (hist.outcome = "completed" /\ hist.rounds = 0)
      => /\ Len(state.messageParams) = hist.k + 2
         /\ \A i \in 1..hist.k : state.messageParams[i] = ClearCacheControl(hist.before[i])
         /\ Role(hist.k + 1) = "user"
         /\ Len(Blocks(hist.k + 1)) = 1
         /\ Blocks(hist.k + 1)[1].type = "text"
         /\ Blocks(hist.k + 1)[1].text = Hello
         /\ state.messageParams[hist.k + 2]
                = Message("assistant", ArrayContent(currentMessage.content))
         /\ Len(state.messageUsages) = hist.u + 1
         /\ state.messageUsages[hist.u + 1] = currentMessage.usage

\* A plain turn completed after an earlier turn had filled the store.
C4_Witness ==
    /\ hist.outcome = "completed"
    /\ hist.rounds = 0
    /\ hist.k >= 2

\* C5: a turn completed after n tool round trips adds 2 + 2n messages, user
\* and assistant alternating (user text, then n times assistant tool use and
\* user tool results, then the final assistant reply), and 1 + n usage records.
C5_CompletedTurnShape ==
    hist.outcome = "completed"
      => LET k == hist.k
             n == hist.rounds
         IN /\ Len(state.messageParams) = k + 2 + 2 * n
            /\ Len(state.messageUsages) = hist.u + 1 + n
            /\ \A j \in 1..(2 + 2 * n) :
                  Role(k + j) = IF j % 2 = 1 THEN "user" ELSE "assistant"
            /\ Blocks(k + 1)[1].type = "text"
            /\ \A r \in 1..n :
                  /\ HasToolUse(Blocks(k + 2 * r))
                  /\ Len(Blocks(k + 2 * r + 1)) >= 1
                  /\ \A i \in 1..Len(Blocks(k + 2 * r + 1)) :
                        Blocks(k + 2 * r + 1)[i].type = "tool_result"
            /\ ~HasToolUse(Blocks(k + 2 + 2 * n))

\* A turn completed after two tool round trips.
C5_Witness ==
    /\ hist.outcome = "completed"
    /\ hist.rounds = 2

\* C6: the usage log has one record per model call that completed; calls
\* that were cancelled or failed left none.
C6_UsagePerCompletedCall ==
    Len(state.messageUsages) = hist.completed

\* One call completed and a later one was cancelled.
C6_Witness ==
    /\ hist.outcome = "aborted"
    /\ hist.completed >= 1
    /\ hist.started > hist.completed

\* C7: running = false is terminal: it never turns true again, main has left
\* its loop, and no read, model call or tool dispatch is pending.
C7_RunningFalseTerminal ==
    /\ [](~state.running
            => /\ pc = "Done"
               /\ ~currQuestionAbortController
               /\ currApiStream # "streaming")
    /\ [][~state.running => ~state'.running]_vars

\* The operator confirmed the exit.
C7_Witness ==
    /\ ~state.running
    /\ pc = "Done"

\* C8: interrupted is true only during the exit confirmation: it is false
\* while main awaits input, calls the model or dispatches tools, and every
\* way out of the confirmation that leaves the process alive resets it.
C8_InterruptedOnlyInConfirmExit ==
    /\ [](state.interrupted => pc \in {"ConfirmExit", "Exited"})
    /\ [][(pc = "ConfirmExit" /\ pc' \notin {"ConfirmExit", "Exited"})
            => ~state'.interrupted]_vars

\* The exit question failed and main is back at the input prompt.
C8_Witness ==
    /\ event.type = "readError"
    /\ pc = "AwaitingInput"
    /\ ~state.interrupted

\* The lines that are y or yes in any letter case.
YesLines ==
    {<<a>> : a \in {"y", "Y"}}
      \cup {<<a, b, c>> : a \in {"y", "Y"}, b \in {"e", "E"}, c \in {"s", "S"}}

\* C9: in ConfirmExit a line that is y or yes (any case, whole line) sets
\* running to false and ends the loop; any other line keeps running true and
\* returns to AwaitingInput, also when an exit was declined before.
C9_ConfirmExitAnswer ==
    [][(pc = "ConfirmExit" /\ event'.type = "line")
          => IF event'.value \in YesLines
             THEN ~state'.running /\ pc' = "Done"
             ELSE state'.running /\ pc' = "AwaitingInput"]_vars

\* An exit was declined and a later one confirmed.
C9_Witness ==
    /\ hist.declined
    /\ pc = "Done"
    /\ event.type = "line"
    /\ event.value \in YesLines

\* C10: an interrupt while the exit confirmation is pending terminates the
\* process; an interrupt while the input prompt is pending does not, it moves
\* to ConfirmExit.
C10_SecondInterruptExits ==
    [][event'.type = "SIGINT"
          => /\ pc = "ConfirmExit" => pc' = "Exited"
             /\ pc = "AwaitingInput"
                  => pc' = "ConfirmExit" /\ state'.interrupted /\ state'.running]_vars

\* The process was terminated from the exit confirmation.
C10_Witness ==
    /\ pc = "Exited"
    /\ event.type = "SIGINT"

\* C11: an empty input line leads back to AwaitingInput; no model call is
\* started and messages, usage records, running and interrupted keep their
\* values.
C11_EmptyLineNoCall ==
    [][(pc = "AwaitingInput" /\ event'.type = "line" /\ event'.value = <<>>)
          => /\ pc' = "AwaitingInput"
             /\ state' = state
             /\ currApiStream' = currApiStream
             /\ hist'.started = hist.started]_vars

\* An empty line was entered after a turn had filled the store.
C11_Witness ==
    /\ pc = "AwaitingInput"
    /\ event = [type |-> "line", value |-> <<>>]
    /\ logs = <<"Empty input, aborting">>
    /\ Len(state.messageParams) >= 2
    /\ Len(state.messageUsages) >= 1

\* C12: an interrupt cancels the pending terminal read (the prompt is left)
\* and the model call in flight (its stream is aborted); with neither of the
\* two active it changes no flag, message, usage record or control state.
C12_InterruptCancelsActive ==
    [][event'.type = "SIGINT"
          => /\ (currQuestionAbortController /\ pc \in {"AwaitingInput", "ConfirmExit"})
                  => pc' # pc
             /\ currApiStream = "streaming" => currApiStream' = "aborted"
             /\ (~currQuestionAbortController /\ currApiStream # "streaming")
                  => UNCHANGED <<state, pc, currQuestionAbortController,
                                 currApiStream, messageParam, currentMessage,
                                 blockIdx, toolResults, hist>>]_vars

\* An interrupt arrived while the tools of a reply were being dispatched.
C12_Witness ==
    /\ pc = "DispatchingTools"
    /\ event.type = "SIGINT"
    /\ currApiStream = "null"
    /\ ~state.interrupted

\* C13: at most one operation is outstanding: the model calls started and
\* not yet settled are at most one, and exactly one while the orchestrator
\* waits for the model; a terminal read is pending only at a prompt; a read is
\* never pending while a call is in flight.
C13_OneOutstanding ==
    LET outstanding == hist.started - hist.settled IN
    /\ outstanding \in {0, 1}
    /\ outstanding = 1 <=> InModelCall
    /\ currApiStream = "streaming" => outstanding = 1
    /\ (currQuestionAbortController /\ pc # "Exited")
          <=> pc \in {"AwaitingInput", "ConfirmExit"}
    /\ ~(currQuestionAbortController /\ outstanding = 1)

\* A second model call of a turn is in flight after the first one settled.
C13_Witness ==
    /\ pc = "ToolLoopCallingModel"
    /\ currApiStream = "streaming"
    /\ hist.settled >= 1
    /\ ~currQuestionAbortController

RECURSIVE Replay(_)
\* The store after appending the given payloads, one by one, to the baseline.
Replay(payloads) ==
    IF payloads = <<>> THEN initialState
    ELSE AppendToMessageParamsCase(Replay(SubSeq(payloads, 1, Len(payloads) - 1)),
                                   payloads[Len(payloads)])

\* C14: after truncateMessages(n), appending any message gives the message
\* list that the same append gives on a store to which the discarded messages
\* were never appended; truncateMessages(n) with n >= length changes nothing.
C14_TruncateThenAppend ==
    /\ [](\A m \in Payloads :
            AppendToMessageParamsCase(state, m).messageParams
              = AppendToMessageParamsCase(Replay(hist.appended), m).messageParams)
    /\ [][(event'.type = "truncate-messages"
            /\ event'.value[1] >= Len(state.messageParams)) => state' = state]_vars

\* A message was appended after a truncation that discarded messages.
C14_Witness ==
    /\ hist.truncated
    /\ event.type = "append-to-message-params"
    /\ Len(state.messageParams) >= 2

\* C15: appending a usage record makes the usage list one longer, the new
\* record last and the earlier ones in place, and leaves messages, running
\* and interrupted as they were.
C15_AppendUsageGrowsByOne ==
    [][event'.type = "append-to-message-usages"
          => /\ Len(state'.messageUsages) = Len(state.messageUsages) + 1
             /\ SubSeq(state'.messageUsages, 1, Len(state.messageUsages))
                  = state.messageUsages
             /\ state'.messageUsages[Len(state'.messageUsages)]
                  = UsageOf(Len(state.messageUsages) + 1)
             /\ state'.messageParams = state.messageParams
             /\ state'.running = state.running
             /\ state'.interrupted = state.interrupted]_vars

\* A second usage record was appended to a store that holds messages.
C15_Witness ==
    /\ event.type = "append-to-message-usages"
    /\ Len(state.messageUsages) = 2
    /\ Len(state.messageParams) >= 1
    /\ ~state.running

\* C16: every reset gives the same baseline, running, not interrupted, no
\* messages, no usage records, default configuration, whatever was changed
\* before it, also after an earlier reset.
C16_ResetBaseline ==
    [][event'.type = "reset"
          => state' = [interrupted |-> FALSE, running |-> TRUE,
                       messageParams |-> <<>>, messageUsages |-> <<>>,
                       model |-> DEFAULT_CONFIG.model,
                       pricingPerModel |-> DEFAULT_CONFIG.pricingPerModel,
                       disableCostMessage |-> FALSE]]_vars

\* The store was changed, reset, changed again and reset again.
C16_Witness ==
    /\ event.type = "reset"
    /\ hist.dirtyResets = 2
    /\ state.messageParams = <<>>
    /\ state.running


\* C17: when the dispatch of a tool_use block whose name has no executor
\* settles, the orchestrator ends with a fatal error: no result block is added,
\* the store is untouched, no model call is started then or later.
C17_UnknownToolFatal ==
    [][/\ (pc = "DispatchingTools" /\ event'.type # "SIGINT"
            /\ currentMessage.content[blockIdx].name
                 \notin {"bash", "create_file", "view_file", "str_replace",
                         "insert_lines"})
          => /\ pc' = "Fatal"
             /\ toolResults' = toolResults
             /\ state' = state
             /\ hist'.started = hist.started
             /\ currApiStream' = "null"
       /\ pc = "Fatal" => (pc' = "Fatal" /\ hist'.started = hist.started)]_vars

\* The second tool_use block of a reply named a tool without executor, after
\* the first one had produced its result.
C17_Witness ==
    /\ pc = "Fatal"
    /\ event.type = "toolError"
    /\ currentMessage.content[blockIdx].name = "web_search"
    /\ Len(toolResults) = 1

\* C18: for each of the five tools, an input with a required field missing,
\* with an unknown field or with a field of a wrong type makes the dispatch
\* throw: no result block is returned, no command was run, no file was read or
\* written.
C18_SchemaMismatchThrows ==
    [][event'.type \in {"missing", "extra", "wrongType"}
          => /\ toolOutcome'.threw
             /\ toolOutcome'.block = None
             /\ io' = <<>>
             /\ file' = file]_vars

\* insert_lines was given an input of a wrong type while the file was there
\* to be read.
C18_Witness ==
    /\ event.type = "wrongType"
    /\ invocation.name = "insert_lines"
    /\ toolOutcome.threw
    /\ file.kind = "file"
    /\ io = <<>>

\* The positions (from 1) at which t occurs in s.
OccurrencesAt(s, t) ==
    {i \in 1..(Len(s) + 1) :
        i + Len(t) - 1 <= Len(s) /\ SubSeq(s, i, i + Len(t) - 1) = t}

\* The number of lines of a text: one more than its line breaks.
LineCount(s) == Cardinality({i \in 1..Len(s) : s[i] = "\n"}) + 1

\* C19: a dispatch with an input the schema accepts never throws and returns
\* a block with the id of the invocation; when the execution failed (a failed
\* process, stat, read or write, a missing file, a file that exists on create,
\* old_str occurring not exactly once on replace, after_line out of range on
\* insert) the block has is_error set and a message.
C19_FailureReturnedAsError ==
    [][event'.type = "valid"
          => LET name == invocation'.name
                 input == invocation'.input
                 failure ==
                    \/ \E i \in 1..Len(io') : ~io'[i].ok
                    \/ name # "bash" /\ name # "create_file" /\ file.kind = "absent"
                    \/ name = "create_file" /\ file.kind # "absent"
                    \/ /\ name = "str_replace"
                       /\ file.kind = "file"
                       /\ Cardinality(OccurrencesAt(file.content, input.old_str.s)) # 1
                    \/ /\ name = "insert_lines"
                       /\ file.kind = "file"
                       /\ \/ input.after_line.n < 0
                          \/ input.after_line.n > LineCount(file.content)
             IN /\ ~toolOutcome'.threw
                /\ toolOutcome'.block.tool_use_id = invocation'.id
                /\ failure => /\ toolOutcome'.block.is_error
                              /\ toolOutcome'.block.content.msg # ""]_vars

\* C20: str_replace on a file in which old_str occurs exactly once succeeds
\* and leaves the file with that occurrence replaced by new_str as given,
\* everything else as it was; with no occurrence or more than one it returns
\* is_error and leaves the file as it was (reads and writes succeeding).
C20_ReplaceExactlyOnce ==
    [][(/\ event'.type = "valid"
        /\ invocation'.name = "str_replace"
        /\ file.kind = "file"
        /\ \A i \in 1..Len(io') : io'[i].ok)
          => LET content == file.content
                 old_str == invocation'.input.old_str.s
                 new_str == invocation'.input.new_str.s
                 at == OccurrencesAt(content, old_str)
             IN IF Cardinality(at) = 1
                THEN LET i == CHOOSE i \in at : TRUE IN
                     /\ ~toolOutcome'.block.is_error
                     /\ file' = File(SubSeq(content, 1, i - 1) \o new_str
                                       \o SubSeq(content, i + Len(old_str), Len(content)))
                ELSE /\ toolOutcome'.block.is_error
                     /\ file' = file]_vars

\* The position of the k-th line break of s (1 <= k < LineCount(s)).
LineBreak(s, k) ==
    CHOOSE p \in 1..Len(s) :
        /\ s[p] = "\n"
        /\ Cardinality({i \in 1..p : s[i] = "\n"}) = k

\* C21: insert_lines on a file (reads and writes succeeding) with after_line
\* 0 puts the content before the first line, with after_line = lineCount
\* after the last line, with 0 < after_line < lineCount directly after that
\* line, every other character of the file staying where it was relative to
\* the others; after_line < 0 or > lineCount returns is_error and leaves the
\* file as it was.
C21_InsertAfterLine ==
    [][(/\ event'.type = "valid"
        /\ invocation'.name = "insert_lines"
        /\ file.kind = "file"
        /\ \A i \in 1..Len(io') : io'[i].ok)
          => LET old == file.content
                 after_line == invocation'.input.after_line.n
                 content == invocation'.input.content.s
                 lineCount == LineCount(old)
             IN IF after_line < 0 \/ after_line > lineCount
                THEN /\ toolOutcome'.block.is_error
                     /\ file' = file
                ELSE /\ ~toolOutcome'.block.is_error
                     /\ file' = File(
                          IF after_line = 0 THEN content \o <<"\n">> \o old
                          ELSE IF after_line = lineCount THEN old \o <<"\n">> \o content
                          ELSE LET p == LineBreak(old, after_line) IN
                               SubSeq(old, 1, p) \o content \o <<"\n">>
                                 \o SubSeq(old, p + 1, Len(old)))]_vars

\* An insertion strictly inside a file of several lines has been made.
C21_Witness ==
    /\ event.type = "valid"
    /\ invocation # None
    /\ invocation.name = "insert_lines"
    /\ ~toolOutcome.threw
    /\ ~toolOutcome.block.is_error
    /\ file.kind = "file"
    /\ invocation.input.after_line.n >= 1
    /\ LineCount(file.content)
         > invocation.input.after_line.n + LineCount(invocation.input.content.s)

\* An insertion was refused for an after_line beyond the last line.
C21_WitnessOutOfRange ==
    /\ event.type = "valid"
    /\ invocation # None
    /\ invocation.name = "insert_lines"
    /\ ~toolOutcome.threw
    /\ toolOutcome.block.is_error
    /\ io = <<Op("read", TRUE)>>
    /\ invocation.input.after_line.n > 0

\* Line i of the text s (1 <= i <= LineCount(s)), without its line break.
LineOf(s, i) ==
    SubSeq(s,
           IF i = 1 THEN 1 ELSE LineBreak(s, i - 1) + 1,
           IF i = LineCount(s) THEN Len(s) ELSE LineBreak(s, i) - 1)

RECURSIVE Listing(_, _, _)
\* Lines from..to of s, each after its line number and a tab, one per line.
Listing(s, from, to) ==
    IF from > to THEN <<>>
    ELSE NumberToString(from) \o <<"\t">> \o LineOf(s, from)
           \o (IF from < to THEN <<"\n">> \o Listing(s, from + 1, to) ELSE <<>>)

\* C22: view_file on a file (stat and read succeeding) with start_line s, a
\* line number from 1 (1 when omitted), and end_line e, from 0, returns the
\* lines s..e that the file has, in order, each prefixed with its 1-based
\* line number; end_line -1 or omitted means up to the last line.
C22_ViewRange ==
    [][(/\ event'.type = "valid"
        /\ invocation'.name = "view_file"
        /\ file.kind = "file"
        /\ \A i \in 1..Len(io') : io'[i].ok
        /\ "start_line" \in DOMAIN invocation'.input
             => invocation'.input.start_line.n >= 1)
          => LET input == invocation'.input
                 lineCount == LineCount(file.content)
                 s == IF "start_line" \in DOMAIN input THEN input.start_line.n ELSE 1
                 e == IF "end_line" \notin DOMAIN input THEN lineCount
                      ELSE IF input.end_line.n = -1 THEN lineCount
                      ELSE IF input.end_line.n > lineCount THEN lineCount
                      ELSE input.end_line.n
             IN /\ ~toolOutcome'.threw
                /\ ~toolOutcome'.block.is_error
                /\ toolOutcome'.block.content.text = Listing(file.content, s, e)
                /\ file' = file]_vars

\* Lines 2..e of a longer file have been viewed, e before the last line.
C22_Witness ==
    /\ event.type = "valid"
    /\ invocation # None
    /\ invocation.name = "view_file"
    /\ file.kind = "file"
    /\ ~toolOutcome.threw
    /\ ~toolOutcome.block.is_error
    /\ DOMAIN invocation.input = {"path", "start_line", "end_line"}
    /\ invocation.input.start_line.n = 2
    /\ invocation.input.end_line.n >= 2
    /\ invocation.input.end_line.n < LineCount(file.content)
    /\ toolOutcome.block.content.text # <<>>

\* C23: when a model call fails with an error that is not a cancellation,
\* main throws: the process ends in its fatal exit (status 1) with the error
\* printed, the store is left as it was, no call is started in that step and
\* no step follows the fatal exit, so the failed call is never issued again.
C23_FailureFatalNoRetry ==
    [][/\ event'.type = "apiError"
          => /\ InModelCall
             /\ pc' = "Fatal"
             /\ logs' = <<"error">>
             /\ state' = state
             /\ currApiStream' = "failed"
             /\ hist'.started = hist.started
             /\ hist'.settled = hist.settled + 1
       /\ pc # "Fatal"]_vars

\* A call of the tool loop has failed after an earlier call had completed.
C23_Witness ==
    /\ pc = "Fatal"
    /\ event.type = "apiError"
    /\ hist.completed >= 1
    /\ hist.started = hist.completed + 1

\* The settings file f exists and defines the key k.
Defines(f, k) == f.kind = "json" /\ k \in DOMAIN f.config

\* C24: with settings files that are absent or valid, and file-system calls
\* that succeed, initStateFromConfig returns and leaves each of model,
\* disableCostMessage and pricingPerModel in the store, independently, as
\* the local file's value if that file exists and defines it, else the global
\* file's value if defined, else the default; a global file that does not
\* exist is written with the default configuration (its layer is then the
\* defaults), and no other file or store field changes.
C24_ConfigPrecedence ==
    [][(/\ pc = "Config"
        /\ file.global.kind \in {"absent", "json"}
        /\ file.local.kind \in {"absent", "json"}
        /\ \A i \in 1..Len(io') : io'[i].ok)
          => /\ event'.type = "returned"
             /\ \A k \in ConfigKeys :
                  state'[k] = IF Defines(file.local, k) THEN file.local.config[k]
                              ELSE IF Defines(file.global, k) THEN file.global.config[k]
                              ELSE DEFAULT_CONFIG[k]
             /\ state'.messageParams = state.messageParams
             /\ state'.messageUsages = state.messageUsages
             /\ state'.running = state.running
             /\ state'.interrupted = state.interrupted
             /\ file'.local = file.local
             /\ file'.global = IF file.global.kind = "absent"
                               THEN [kind |-> "json", config |-> DEFAULT_CONFIG]
                               ELSE file.global]_vars

\* The three keys came from three places: model from the local file over a
\* different global value, disableCostMessage = false from the local file
\* over a global true, pricingPerModel from the default although the store
\* held another table.
C24_Witness ==
    /\ pc = "Configured"
    /\ event.type = "returned"
    /\ Defines(file.local, "model") /\ Defines(file.global, "model")
    /\ file.local.config.model # file.global.config.model
    /\ state.model = file.local.config.model
    /\ Defines(file.local, "disableCostMessage")
    /\ Defines(file.global, "disableCostMessage")
    /\ ~file.local.config.disableCostMessage
    /\ file.global.config.disableCostMessage
    /\ ~state.disableCostMessage
    /\ ~Defines(file.local, "pricingPerModel")
    /\ ~Defines(file.global, "pricingPerModel")
    /\ state.pricingPerModel = DEFAULT_CONFIG.pricingPerModel

\* The global file did not exist and now holds the default configuration.
C24_WitnessWritten ==
    /\ pc = "Configured"
    /\ io[2] = Op("write", TRUE)
    /\ file.global = JsonFile(DEFAULT_CONFIG)
    /\ Defines(file.local, "model")
    /\ state.model = file.local.config.model
    /\ state.model # DEFAULT_CONFIG.model

\* The ids of the tool_use blocks of a reply content, in appearance order.
ToolUseIdsOf(content) ==
    LET uses == SelectSeq(content, LAMBDA b : b.type = "tool_use")
    IN [i \in 1..Len(uses) |-> uses[i].id]

\* C25: a reply with stop reason tool_use is followed by the dispatch of its
\* tool_use blocks, one at a time in appearance order (at every dispatch the
\* results collected so far are those of the tool_use blocks before it); the
\* call that follows carries one user message with exactly one tool_result
\* per tool_use block of the most recent reply, the i-th with the id of the
\* i-th; a reply with another stop reason ends the loop.
C25_ToolRoundAnswersEveryInvocation ==
    /\ [](/\ pc = "DispatchingTools"
             => /\ currentMessage.stop_reason = "tool_use"
                /\ blockIdx \in 1..Len(currentMessage.content)
                /\ currentMessage.content[blockIdx].type = "tool_use"
                /\ [i \in 1..Len(toolResults) |-> toolResults[i].tool_use_id]
                     = ToolUseIdsOf(SubSeq(currentMessage.content, 1, blockIdx - 1))
          /\ pc = "ToolLoopCallingModel"
             => /\ currentMessage.stop_reason = "tool_use"
                /\ Len(state.messageParams) >= 1
                /\ state.messageParams[Len(state.messageParams)].role = "assistant"
                /\ Blocks(Len(state.messageParams))
                     = [i \in 1..Len(currentMessage.content) |->
                          [currentMessage.content[i] EXCEPT !.cache_control =
                              Blocks(Len(state.messageParams))[i]
                                .cache_control]]
                /\ messageParam.role = "user"
                /\ \A i \in 1..Len(messageParam.content.blocks) :
                     messageParam.content.blocks[i].type = "tool_result"
                /\ [i \in 1..Len(messageParam.content.blocks) |->
                      messageParam.content.blocks[i].tool_use_id]
                     = ToolUseIdsOf(currentMessage.content))
    /\ [][event'.type = "finalMessage"
             => IF currentMessage'.stop_reason = "tool_use"
                THEN pc' = "DispatchingTools" /\ toolResults' = <<>>
                ELSE pc' \in {"AwaitingInput", "Done"}]_vars

\* The second tool round of a turn answers a reply that has two tool_use
\* blocks with a text block between them.
C25_Witness ==
    /\ pc = "ToolLoopCallingModel"
    /\ hist.rounds = 1
    /\ Len(messageParam.content.blocks) = 2
    /\ Len(currentMessage.content) = 3

\* C26: while a tool dispatch is awaited no model call is in flight and no
\* outbound message exists; the tool-result message is built, and the next
\* call started, in the step in which the last dispatch of the round settles,
\* when there is a result for every tool_use block of the reply; and a
\* dispatch is only started when no call is in flight.
C26_CallAfterAllDispatchesSettled ==
    /\ [](pc = "DispatchingTools"
            => /\ currApiStream = "null"
               /\ messageParam = None
               /\ Len(toolResults)
                    < Cardinality({i \in 1..Len(currentMessage.content) :
                                      currentMessage.content[i].type = "tool_use"}))
    /\ [][/\ (pc' = "ToolLoopCallingModel" /\ currApiStream' = "streaming"
                /\ (pc # "ToolLoopCallingModel" \/ hist'.started # hist.started))
             => /\ pc = "DispatchingTools"
                /\ event'.type = "toolResult"
                /\ Len(toolResults') = Len(toolResults) + 1
                /\ Len(toolResults')
                     = Cardinality({i \in 1..Len(currentMessage.content) :
                                       currentMessage.content[i].type = "tool_use"})
                /\ Len(messageParam'.content.blocks) = Len(toolResults')
          /\ (pc' = "DispatchingTools" /\ pc # "DispatchingTools")
             => /\ event'.type = "finalMessage"
                /\ currApiStream' = "null"]_vars

\* The call of a round with two dispatches has just been started.
C26_Witness ==
    /\ pc = "ToolLoopCallingModel"
    /\ currApiStream = "streaming"
    /\ event.type = "toolResult"
    /\ Len(toolResults) = 2

\* The messages a and b are the same apart from their cache markers.
SameApartFromCacheControl(a, b) ==
    /\ a.role = b.role
    /\ Len(a.content.blocks) = Len(b.content.blocks)
    /\ \A i \in 1..Len(a.content.blocks) :
          [a.content.blocks[i] EXCEPT !.cache_control = "absent"]
            = [b.content.blocks[i] EXCEPT !.cache_control = "absent"]

\* C27: the step in which a model call succeeds appends to the store exactly
\* the outbound message and then the reply, and one usage record, that of
\* the call; a step in which no call succeeds appends nothing.  So the store
\* holds the messages of the completed calls in call order, and its k-th
\* usage record is that of the k-th completed call: the store always has two
\* messages and one usage record per completed call.
C27_AppendsInCallOrder ==
    /\ [](/\ Len(state.messageParams) = 2 * hist.completed
          /\ Len(state.messageUsages) = hist.completed
          /\ \A i, j \in 1..Len(state.messageUsages) :
                i < j => state.messageUsages[i].input_tokens
                           < state.messageUsages[j].input_tokens
          /\ \A i \in 1..Len(state.messageParams) :
                state.messageParams[i].role = IF i % 2 = 1 THEN "user" ELSE "assistant")
    /\ [][IF event'.type = "finalMessage"
          THEN LET n == Len(state.messageParams)
                   u == Len(state.messageUsages)
               IN /\ hist'.completed = hist.completed + 1
                  /\ Len(state'.messageParams) = n + 2
                  /\ \A i \in 1..n :
                        SameApartFromCacheControl(state'.messageParams[i],
                                                  state.messageParams[i])
                  /\ SameApartFromCacheControl(state'.messageParams[n + 1], messageParam)
                  /\ state'.messageParams[n + 2].role = "assistant"
                  /\ state'.messageParams[n + 2].content.blocks = currentMessage'.content
                  /\ state'.messageUsages = Append(state.messageUsages, currentMessage'.usage)
                  /\ currentMessage'.usage = UsageOf(hist.started)
          ELSE /\ state'.messageParams = state.messageParams
               /\ state'.messageUsages = state.messageUsages
               /\ hist'.completed = hist.completed]_vars

\* Of three calls the second was cancelled: the store holds the messages and
\* the usage records of the first and the third, in call order.
C27_Witness ==
    /\ hist.completed = 2
    /\ Len(state.messageParams) = 4
    /\ state.messageUsages = <<UsageOf(1), UsageOf(3)>>

\* A turn that was started with a non-empty line is under way.
InTurn == pc \in {"CallingModel", "DispatchingTools", "ToolLoopCallingModel"}

\* C28 as stated: when calls and dispatches settle, every turn started with
\* a non-empty line ends with control back at the prompt.
C28_TurnReturnsToPrompt == InTurn ~> (pc = "AwaitingInput")

\* C28: when calls and dispatches settle, every turn started with a
\* non-empty line ends: control is back at the prompt, or the process has
\* exited with the error of a call that failed or of a dispatch that threw.
C28_TurnEnds ==
    InTurn ~> \/ pc = "AwaitingInput"
              \/ pc = "Fatal" /\ event.type \in {"apiError", "toolError"}

\* A turn with a tool round has ended normally, control is at the prompt.
C28_Witness ==
    /\ pc = "AwaitingInput"
    /\ hist.outcome = "completed"
    /\ hist.rounds >= 1
    /\ event.type = "finalMessage"

\* C29: an interrupt while a model call is in flight aborts the stream and
\* nothing else: the store, the position of main and the question controller
\* stay as they were; the call then settles as aborted (unless it fails with
\* another error), and that step reports Aborted and returns to the prompt
\* with running = true and interrupted = false.  ConfirmExit and the exit of
\* the process are not entered by either step.
C29_InterruptCancelsCallOnly ==
    /\ [](InModelCall => state.running /\ ~state.interrupted
                           /\ ~currQuestionAbortController)
    /\ [][/\ (InModelCall /\ event'.type = "SIGINT")
             => /\ currApiStream' = "aborted"
                /\ pc' = pc
                /\ state' = state
                /\ currQuestionAbortController' = currQuestionAbortController
                /\ hist'.started = hist.started
          /\ (InModelCall /\ currApiStream = "aborted" /\ event'.type # "SIGINT")
             => \/ event'.type = "apiError" /\ pc' = "Fatal"
                \/ /\ event'.type = "APIUserAbortError"
                   /\ logs'[1] = "Aborted"
                   /\ pc' = "AwaitingInput"
                   /\ currQuestionAbortController'
                   /\ state'.running
                   /\ ~state'.interrupted
                   /\ hist'.started = hist.started]_vars

\* A call of the tool loop was interrupted and control is back at the prompt.
C29_Witness ==
    /\ pc = "AwaitingInput"
    /\ event.type = "APIUserAbortError"
    /\ hist.outcome = "aborted"
    /\ hist.completed >= 1
    /\ hist.started = hist.completed + 1
    /\ state.running
    /\ ~state.interrupted

\* The step printed a cost summary.
CostSummaryPrinted ==
    \E i \in 1..Len(logs') : logs'[i] = "Session cost"

\* C30: a step prints a cost summary exactly when it ends a turn normally (a
\* reply whose stop reason is not tool_use has arrived) and cost reporting is
\* not disabled; no summary for an empty line, for the exit dialog, or for a
\* turn cancelled in its first call or in the tool loop.
C30_CostSummaryOnNormalEnd ==
    [][CostSummaryPrinted
         <=> /\ event'.type = "finalMessage"
             /\ currentMessage'.stop_reason # "tool_use"
             /\ ~state'.disableCostMessage]_vars

RECURSIVE SumOver(_, _)
\* The sum of the numbers at a set of positions of a sequence.
SumOver(numbers, positions) ==
    IF positions = {} THEN 0
    ELSE LET i == CHOOSE i \in positions : \A j \in positions : i <= j
         IN numbers[i] + SumOver(numbers, positions \ {i})

\* C31: the cost printed for a usage log is the sum of the input tokens times
\* the input price, the output tokens times the output price, the
\* cache-creation tokens times the cache-write price and the cache-read
\* tokens times the cache-read price of the active model, per million
\* tokens, absent and null cache counts counting 0, shown to the nearest
\* ten-thousandth of a dollar; the sums are over the records whatever their
\* order, and the empty log costs 0.0000.
C31_SessionCost ==
    [][event'.type = "cost"
         => LET usages == state.messageUsages
                all == 1..Len(usages)
                pricing == state.pricingPerModel[state.model]
                cacheCreation ==
                    [i \in all |-> IF usages[i].cache_creation_input_tokens.kind = "number"
                                   THEN usages[i].cache_creation_input_tokens.n ELSE 0]
                cacheRead ==
                    [i \in all |-> IF usages[i].cache_read_input_tokens.kind = "number"
                                   THEN usages[i].cache_read_input_tokens.n ELSE 0]
                input == [i \in all |-> usages[i].input_tokens]
                output == [i \in all |-> usages[i].output_tokens]
                exact == SumOver(input, all) * pricing.inputPerToken
                           + SumOver(output, all) * pricing.outputPerToken
                           + SumOver(cacheCreation, all) * pricing.cacheWrite5mPerToken
                           + SumOver(cacheRead, all) * pricing.cacheReadPerToken
            IN /\ \E amount \in {exact \div UnitsPerAmount, (exact \div UnitsPerAmount) + 1} :
                    /\ logs' = <<(<<"Session cost: $">> \o toFixed(amount))>>
                    /\ 2 * (amount * UnitsPerAmount - exact) <= UnitsPerAmount
                    /\ 2 * (exact - amount * UnitsPerAmount) <= UnitsPerAmount
               /\ usages = <<>>
                    => logs' = <<(<<"Session cost: $", "0", ".", "0", "0", "0", "0">>)>>]_vars

\* The cost of a log of two records with a null, an absent and a given cache
\* count has been printed, and it is not zero.
C31_Witness ==
    /\ pc = "Costed"
    /\ Len(state.messageUsages) = 2
    /\ state.messageUsages[1].cache_creation_input_tokens.kind = "null"
    /\ state.messageUsages[1].cache_read_input_tokens.kind = "number"
    /\ state.messageUsages[2].cache_creation_input_tokens.kind = "number"
    /\ state.messageUsages[2].cache_read_input_tokens.kind = "undefined"
    /\ state.messageUsages[1].output_tokens # state.messageUsages[2].output_tokens
    /\ logs # <<(<<"Session cost: $", "0", ".", "0", "0", "0", "0">>)>>

\* Message i of the store is a tool-result message.
IsToolResultMessage(i) ==
    /\ Role(i) = "user"
    /\ Blocks(i) # <<>>
    /\ \A b \in 1..Len(Blocks(i)) : Blocks(i)[b].type = "tool_result"

\* C32 as stated: the latest tool-result message of the store has a cache
\* marker on every block and is the only message of the store that has one.
C32_StoredToolResultsMarked ==
    \A i \in 1..Len(state.messageParams) :
        (/\ IsToolResultMessage(i)
         /\ \A j \in (i + 1)..Len(state.messageParams) : ~IsToolResultMessage(j))
          => /\ \A b \in 1..Len(Blocks(i)) : Blocks(i)[b].cache_control = "ephemeral"
             /\ \A j \in 1..Len(state.messageParams) :
                    j # i => ~CacheMarked(state.messageParams[j])

\* C32: the tool-result message the orchestrator assembles and sends has a
\* cache marker on every result block, and no message of the store has one
\* while it is sent; when the call succeeds the message is appended, and the
\* append of the reply, in the same step, clears its markers: it is stored
\* with cache_control null on every block, followed by the reply, and at no
\* point where the orchestrator waits does another message carry a marker.
C32_ToolResultsMarkedWhenSent ==
    /\ [](/\ pc = "ToolLoopCallingModel"
             => /\ messageParam.content.blocks # <<>>
                /\ \A b \in 1..Len(messageParam.content.blocks) :
                      /\ messageParam.content.blocks[b].type = "tool_result"
                      /\ messageParam.content.blocks[b].cache_control = "ephemeral"
          /\ \A j \in 1..Len(state.messageParams) : ~CacheMarked(state.messageParams[j]))
    /\ [][(pc = "ToolLoopCallingModel" /\ event'.type = "finalMessage")
             => LET n == Len(state.messageParams) IN
                /\ Len(state'.messageParams) = n + 2
                /\ state'.messageParams[n + 1].role = "user"
                /\ state'.messageParams[n + 1].content.blocks
                     = [b \in 1..Len(messageParam.content.blocks) |->
                          [messageParam.content.blocks[b] EXCEPT !.cache_control = "null"]]]_vars

\* A turn with a tool round of two results has completed: the tool-result
\* message is in the store, before the final reply, its markers cleared.
C32_Witness ==
    /\ pc = "AwaitingInput"
    /\ hist.outcome = "completed"
    /\ Len(state.messageParams) = 4
    /\ IsToolResultMessage(3)
    /\ Len(Blocks(3)) = 2
    /\ Blocks(3)[1].cache_control = "null"

\* C33: appendMessage adds exactly one message and puts it last, as it was
\* given; every earlier message keeps its position and role; an earlier
\* message with plain-text content is left exactly as it was, and an earlier
\* message with blocks keeps its blocks, in order, each the same apart from
\* cache_control, which is null afterwards; nothing else of the state changes.
C33_AppendMessageFrame ==
    [][event'.type = "append-to-message-params"
         => LET old == state.messageParams
                new == state'.messageParams
                n == Len(old) IN
            /\ Len(new) = n + 1
            /\ new[n + 1] = hist'.appended[Len(hist'.appended)]
            /\ \A i \in 1..n :
                  /\ new[i].role = old[i].role
                  /\ new[i].content.kind = old[i].content.kind
                  /\ old[i].content.kind = "string" => new[i] = old[i]
                  /\ old[i].content.kind = "array"
                       => /\ Len(new[i].content.blocks) = Len(old[i].content.blocks)
                          /\ \A b \in 1..Len(old[i].content.blocks) :
                                /\ new[i].content.blocks[b].cache_control = "null"
                                /\ [old[i].content.blocks[b] EXCEPT !.cache_control = "null"]
                                     = new[i].content.blocks[b]
            /\ [state' EXCEPT !.messageParams = old] = state]_vars

\* A third message was appended to a plain-text message and a message whose
\* block carried a marker when it was appended.
C33_Witness ==
    /\ pc = "Store"
    /\ event.type = "append-to-message-params"
    /\ Len(state.messageParams) = 3
    /\ \E i \in 1..2 : state.messageParams[i].content.kind = "string"
    /\ \E i \in 1..2 :
          /\ hist.appended[i].content.kind = "array"
          /\ hist.appended[i].content.blocks[1].cache_control = "ephemeral"
          /\ state.messageParams[i].content.blocks[1].cache_control = "null"

\* C34: a state a reader was given by getState() reads the same after every
\* later dispatch and reset; the binding `state` always refers to a state
\* that is the whole result of the mutations so far, and initialState is
\* never changed; every dispatch and every reset leaves `state` referring to
\* a new object, which is neither initialState nor the state a reader holds.
C34_StateValuesNeverMutated ==
    /\ [](/\ reader.ref # NoRef => Deref(heap.cells, reader.ref) = reader.seen
          /\ Deref(heap.cells, heap.state) = state
          /\ Deref(heap.cells, InitialStateRef) = initialState)
    /\ [][state' # state
             => heap'.state \notin {InitialStateRef, reader'.ref}]_vars

\* A reader holds the state that had one message, with its marker; since
\* then a message was appended, which cleared the marker in the current
\* state, and running was set to false.
C34_Witness ==
    /\ pc = "Heap"
    /\ reader.ref # NoRef
    /\ reader.ref # heap.state
    /\ reader.seen.running
    /\ Len(reader.seen.messageParams) = 1
    /\ reader.seen.messageParams[1].content.kind = "array"
    /\ reader.seen.messageParams[1].content.blocks[1].cache_control = "ephemeral"
    /\ Len(state.messageParams) = 2
    /\ state.messageParams[1].content.blocks[1].cache_control = "null"
    /\ ~state.running

\* C35: currApiStream is set only while a model call is in flight, so it is
\* null whenever main waits anywhere else, and the two cancellation tokens
\* are never set together.
C35_CallTokenOnlyInFlight ==
    /\ pc \notin {"CallingModel", "ToolLoopCallingModel"} => currApiStream = "null"
    /\ ~(currApiStream # "null" /\ currQuestionAbortController)

\* The messages of the request of the call in flight:
\* [...getMessageParams(), messageParam].
RequestMessages == Append(state.messageParams, messageParam)

\* C36: while a model call is in flight, the roles of its request alternate
\* starting with user, and every tool_use block of an assistant message has a
\* tool_result block with its id in the message that follows.
C36_RequestWellFormed ==
    pc \in {"CallingModel", "ToolLoopCallingModel"}
      => \A i \in 1..Len(RequestMessages) :
            /\ RequestMessages[i].role = (IF i % 2 = 1 THEN "user" ELSE "assistant")
            /\ RequestMessages[i].role = "assistant"
                 => \A b \in 1..Len(RequestMessages[i].content.blocks) :
                       RequestMessages[i].content.blocks[b].type = "tool_use"
                         => /\ i < Len(RequestMessages)
                            /\ \E r \in 1..Len(RequestMessages[i + 1].content.blocks) :
                                  /\ RequestMessages[i + 1].content.blocks[r].type = "tool_result"
                                  /\ RequestMessages[i + 1].content.blocks[r].tool_use_id
                                       = RequestMessages[i].content.blocks[b].id

\* C37: while a model call is in flight, the last message of its request,
\* the outbound one, is the only one that carries a cache marker: no message
\* taken from the store has a block with one.
C37_OnlyOutboundMarked ==
    pc \in {"CallingModel", "ToolLoopCallingModel"}
      => /\ CacheMarked(messageParam)
         /\ \A i \in 1..Len(state.messageParams) :
               /\ state.messageParams[i].content.kind = "array"
               /\ \A b \in 1..Len(state.messageParams[i].content.blocks) :
                     state.messageParams[i].content.blocks[b].cache_control # "ephemeral"

\* The third call of a session is in flight, after a tool round with two
\* results: its request carries the tool-result message of that round, which
\* was sent with two markers, and four more messages.
C37_Witness ==
    /\ pc \in {"CallingModel", "ToolLoopCallingModel"}
    /\ Len(state.messageParams) = 4
    /\ IsToolResultMessage(3)
    /\ Len(Blocks(3)) = 2
    /\ CacheMarked(messageParam)

\* C38: whenever main waits for a line of input, the store holds as many
\* assistant messages as usage records, and an even number of messages.
C38_AssistantPerUsageAtPrompt ==
    pc = "AwaitingInput"
      => /\ Cardinality({i \in 1..Len(state.messageParams) : Role(i) = "assistant"})
              = Len(state.messageUsages)
         /\ Len(state.messageParams) % 2 = 0

\* The prompt after a turn that was cancelled in its tool loop, with the
\* messages and the usage record of the completed first call in the store.
C38_Witness ==
    /\ pc = "AwaitingInput"
    /\ hist.outcome = "aborted"
    /\ hist.completed >= 1
    /\ Len(state.messageParams) >= 2
    /\ Len(state.messageUsages) >= 1

\* The prompt after an empty line that followed a completed turn.
C38_WitnessEmptyTurn ==
    /\ pc = "AwaitingInput"
    /\ hist.outcome = "empty"
    /\ Len(state.messageParams) >= 2

\* C39: view_file on a file (stat and read succeeding), with any start_line
\* and end_line the schema accepts, returns a contiguous range of the file's
\* lines in file order, each prefixed with its 1-based position in the file
\* (possibly no line at all).
C39_ViewTruePositions ==
    [][(/\ event'.type = "valid"
        /\ invocation'.name = "view_file"
        /\ file.kind = "file"
        /\ \A i \in 1..Len(io') : io'[i].ok)
          => /\ ~toolOutcome'.threw
             /\ \E from \in 1..(LineCount(file.content) + 1) :
                  \E to \in 0..LineCount(file.content) :
                     toolOutcome'.block.content.text = Listing(file.content, from, to)]_vars

====
